---- MODULE Spec2Model ----
(***************************************************************************)
(* A model of smog, an SMTP-to-Gmail-API relay.                            *)
(*                                                                         *)
(*   Spec        one SMTP connection: Backend.newSession and the Session   *)
(*               callbacks (Auth, Mail, Rcpt, Data, Reset, Logout) of      *)
(*               internal/smtp/relay.go, called in any order, with the     *)
(*               gmail.Service collaborator answering any result.          *)
(*   SpecPolicy  netutil.IsAllowed applied to bounded addresses and rule   *)
(*               sets.                                                     *)
(*   SpecSend    gmail.Client.Send (replaceToHeader, base64) applied to    *)
(*               bounded recipient lists and raw messages.                 *)
(*   SpecCred    the credential on disk (internal/auth/google.go: Login,   *)
(*               LoadToken, saveToken, RevokeToken).                       *)
(*   SpecServe   the start of the server (cmd/smog/main.go,                *)
(*               internal/app/server.go), the dispatches it makes with     *)
(*               the token it loaded, its shutdown and auth revoke.        *)
(*   SpecRelay   the Session callbacks with gmail.Client.Send as the       *)
(*               dispatcher of Data.                                       *)
(*   SpecBrowser the interactive acquisition of a token                    *)
(*               (getTokenFromBrowser, getTokenFromWeb of                  *)
(*               internal/auth/google.go) with its                         *)
(*               goroutines and channels; SpecBrowserLive adds the         *)
(*               fairness of the program's own steps.                      *)
(***************************************************************************)
EXTENDS Integers, Sequences, FiniteSets, TLC

VARIABLES
    cfg,        \* config.Config: SMTPUser, SMTPPassword, MessageSizeLimitMB, AllowedSubnets
    sess,       \* the connection's Session (NoSession until newSession accepts); data is
                \* the number of bytes in its buffer, writes the Data calls that wrote them
    authed,     \* history: an authentication attempt on the session has succeeded
    lastRet,    \* the last callback: its name, argument and result, and the call of
                \* gmail.Service.Send it made
    polIn,      \* SpecPolicy: the inputs of IsAllowed
    polOut,     \* SpecPolicy: its result
    sndIn,      \* SpecSend: the inputs of Client.Send
    sndOut,     \* SpecSend: what Client.Send did
    files,      \* SpecCred, SpecServe: the token file and its backups on disk
    srv,        \* SpecServe: the serving process: its listener and its API client
    credRet,    \* SpecCred, SpecServe: the last operation and its result
    flow        \* SpecBrowser: the interactive acquisition of a token: the calling
                \* goroutine, the callback server and the goroutines blocked on a
                \* channel

sessVars == <<cfg, sess, authed, lastRet>>
polVars == <<polIn, polOut>>
sndVars == <<sndIn, sndOut>>
credVars == <<files, srv, credRet, flow>>
vars == <<sessVars, polVars, sndVars, credVars>>

(***************************************************************************)
(* Bounds of the model.                                                    *)
(***************************************************************************)
MaxRcpt == 2
MaxData == 2
MaxRules == 2

Min(a, b) == IF a <= b THEN a ELSE b

(***************************************************************************)
(* Addresses.  A net.IP is a byte sequence of length 4 or 16; the text of  *)
(* an address or of a rule is kept as its fields: the form it is written   *)
(* in, the numbers written, and the prefix length after "/" (NoPrefix when *)
(* there is no "/").                                                       *)
(***************************************************************************)
NoPrefix == -1

Txt4(a, b, c, d) == [form |-> "v4", b |-> <<a, b, c, d>>, prefix |-> NoPrefix]
Txt4Net(a, b, c, d, p) == [form |-> "v4", b |-> <<a, b, c, d>>, prefix |-> p]
Txt6(bytes) == [form |-> "v6", b |-> bytes, prefix |-> NoPrefix]
Txt6Net(bytes, p) == [form |-> "v6", b |-> bytes, prefix |-> p]
TxtJunk == [form |-> "junk", b |-> <<>>, prefix |-> NoPrefix]

Zeros(n) == [i \in 1..n |-> 0]

\* The 12-byte prefix of an IPv4 address held in 16 bytes.
v4InV6Prefix == Zeros(10) \o <<255, 255>>

\* net.IPv4: an IPv4 address in its 16-byte form.
IPv4(a, b, c, d) == v4InV6Prefix \o <<a, b, c, d>>

\* net.IP.To4: the 4-byte form of an IPv4 address, <<>> (nil) otherwise.
To4(ip) ==
    IF Len(ip) = 4 THEN ip
    ELSE IF Len(ip) = 16 /\ SubSeq(ip, 1, 12) = v4InV6Prefix THEN SubSeq(ip, 13, 16)
    ELSE <<>>

ValidBytes(b, n) == Len(b) = n /\ \A i \in 1..n : b[i] \in 0..255

\* net.ParseIP: the 16-byte address a text stands for, <<>> (nil) when it is not
\* the text of an address.
ParseIP(t) ==
    IF t.prefix # NoPrefix THEN <<>>
    ELSE IF t.form = "v4" /\ ValidBytes(t.b, 4) THEN IPv4(t.b[1], t.b[2], t.b[3], t.b[4])
    ELSE IF t.form = "v6" /\ ValidBytes(t.b, 16) THEN t.b
    ELSE <<>>

\* One byte of net.CIDRMask(ones, bits): the byte at index i (from 1).
MaskByte(ones, i) ==
    LET n == ones - 8 * (i - 1)
    IN  IF n >= 8 THEN 255
        ELSE IF n <= 0 THEN 0
        ELSE 256 - 2 ^ (8 - n)

CIDRMask(ones, bits) == [i \in 1..(bits \div 8) |-> MaskByte(ones, i)]

RECURSIVE BitAnd(_, _, _)
BitAnd(x, y, n) ==
    IF n = 0 THEN 0
    ELSE (IF x % 2 = 1 /\ y % 2 = 1 THEN 1 ELSE 0) + 2 * BitAnd(x \div 2, y \div 2, n - 1)

\* net.IP.Mask for an address and a mask of the same length.
MaskIP(ip, m) == [i \in 1..Len(ip) |-> BitAnd(ip[i], m[i], 8)]

NoNet == [IP |-> <<>>, Mask |-> <<>>]

\* net.ParseCIDR: the network a text "address/prefix" stands for, NoNet (an error)
\* when it is not the text of a CIDR block.
ParseCIDR(t) ==
    IF t.prefix = NoPrefix THEN NoNet
    ELSE IF t.form = "v4" /\ ValidBytes(t.b, 4) /\ t.prefix \in 0..32
        THEN [IP |-> MaskIP(t.b, CIDRMask(t.prefix, 32)), Mask |-> CIDRMask(t.prefix, 32)]
    ELSE IF t.form = "v6" /\ ValidBytes(t.b, 16) /\ t.prefix \in 0..128
        THEN [IP |-> MaskIP(t.b, CIDRMask(t.prefix, 128)), Mask |-> CIDRMask(t.prefix, 128)]
    ELSE NoNet

\* net.IPNet.Contains.
Contains(n, ip) ==
    LET nn == IF To4(n.IP) # <<>> THEN To4(n.IP) ELSE n.IP
        m == IF Len(n.Mask) = Len(nn) THEN n.Mask
             ELSE IF Len(n.Mask) = 16 /\ Len(nn) = 4 /\ SubSeq(n.Mask, 1, 12) = [i \in 1..12 |-> 255]
                  THEN SubSeq(n.Mask, 13, 16)
             ELSE <<>>
        x == IF To4(ip) # <<>> THEN To4(ip) ELSE ip
    IN  /\ m # <<>>
        /\ Len(x) = Len(nn)
        /\ \A i \in 1..Len(x) : BitAnd(nn[i], m[i], 8) = BitAnd(x[i], m[i], 8)

\* net.IP.Equal: an IPv4 address equals its 16-byte form.
IPEqual(ip, x) ==
    IF Len(ip) = Len(x) THEN ip = x
    ELSE IF Len(ip) = 4 /\ Len(x) = 16 THEN SubSeq(x, 1, 12) = v4InV6Prefix /\ ip = SubSeq(x, 13, 16)
    ELSE IF Len(ip) = 16 /\ Len(x) = 4 THEN SubSeq(ip, 1, 12) = v4InV6Prefix /\ SubSeq(ip, 13, 16) = x
    ELSE FALSE

(***************************************************************************)
(* Access policy: netutil.IsAllowed.                                       *)
(***************************************************************************)

\* The loop over the rules from entry i on: the first entry that matches answers
\* TRUE; an entry that is a CIDR block is never tried as an address; an entry that
\* is neither is passed over.
RECURSIVE IsAllowedFrom(_, _, _)
IsAllowedFrom(clientIP, allowedSubnets, i) ==
    IF i > Len(allowedSubnets) THEN FALSE
    ELSE LET subnetStr == allowedSubnets[i]
             cidrNet == ParseCIDR(subnetStr)
             ip == ParseIP(subnetStr)
         IN  IF cidrNet # NoNet
                 THEN IF Contains(cidrNet, clientIP) THEN TRUE
                      ELSE IsAllowedFrom(clientIP, allowedSubnets, i + 1)
             ELSE IF ip # <<>>
                 THEN IF IPEqual(ip, clientIP) THEN TRUE
                      ELSE IsAllowedFrom(clientIP, allowedSubnets, i + 1)
             ELSE IsAllowedFrom(clientIP, allowedSubnets, i + 1)

\* A slip: a malformed entry ends the evaluation with a denial.
RECURSIVE IsAllowedStopAtMalformed(_, _, _)
IsAllowedStopAtMalformed(clientIP, allowedSubnets, i) ==
    IF i > Len(allowedSubnets) THEN FALSE
    ELSE LET subnetStr == allowedSubnets[i]
             cidrNet == ParseCIDR(subnetStr)
             ip == ParseIP(subnetStr)
         IN  IF cidrNet # NoNet
                 THEN IF Contains(cidrNet, clientIP) THEN TRUE
                      ELSE IsAllowedStopAtMalformed(clientIP, allowedSubnets, i + 1)
             ELSE IF ip # <<>>
                 THEN IF IPEqual(ip, clientIP) THEN TRUE
                      ELSE IsAllowedStopAtMalformed(clientIP, allowedSubnets, i + 1)
             ELSE FALSE

IsAllowedLoopStopping(clientIP, allowedSubnets) ==
    IsAllowedStopAtMalformed(clientIP, allowedSubnets, 1)

\* A slip: an entry that is neither a CIDR block nor an address is taken as a match.
RECURSIVE IsAllowedMalformedMatches(_, _, _)
IsAllowedMalformedMatches(clientIP, allowedSubnets, i) ==
    IF i > Len(allowedSubnets) THEN FALSE
    ELSE LET subnetStr == allowedSubnets[i]
             cidrNet == ParseCIDR(subnetStr)
             ip == ParseIP(subnetStr)
         IN  IF cidrNet # NoNet
                 THEN IF Contains(cidrNet, clientIP) THEN TRUE
                      ELSE IsAllowedMalformedMatches(clientIP, allowedSubnets, i + 1)
             ELSE IF ip # <<>>
                 THEN IF IPEqual(ip, clientIP) THEN TRUE
                      ELSE IsAllowedMalformedMatches(clientIP, allowedSubnets, i + 1)
             ELSE TRUE

IsAllowedLoopMatching(clientIP, allowedSubnets) ==
    IsAllowedMalformedMatches(clientIP, allowedSubnets, 1)

IsAllowedLoop(clientIP, allowedSubnets) == IsAllowedFrom(clientIP, allowedSubnets, 1)

\* A slip: rules of which none can be used restrict nothing, as no rules do.
IsAllowedIgnoringMalformed(clientIP, allowedSubnets) ==
    IF \A i \in 1..Len(allowedSubnets) :
           ParseCIDR(allowedSubnets[i]) = NoNet /\ ParseIP(allowedSubnets[i]) = <<>>
        THEN TRUE
    ELSE IsAllowedLoop(clientIP, allowedSubnets)

IsAllowed(clientIP, allowedSubnets) ==
    IF Len(allowedSubnets) = 0 THEN TRUE
    ELSE IsAllowedLoop(clientIP, allowedSubnets)

\* The texts the model draws addresses and rules from.
db8 == <<32, 1, 13, 184>>
Addr6db8 == db8 \o Zeros(11) \o <<1>>
Addr6db9 == <<32, 1, 13, 185>> \o Zeros(11) \o <<1>>
Addr6fe80 == <<254, 128>> \o Zeros(13) \o <<1>>

AddrTexts ==
    { Txt4(10, 0, 0, 5), Txt4(10, 0, 0, 6), Txt4(192, 168, 1, 10), Txt4(203, 0, 113, 5),
      Txt6(Addr6db8), Txt6(Addr6db9), Txt6(Addr6fe80), Txt6(IPv4(10, 0, 0, 5)) }

RuleTexts ==
    { Txt4Net(10, 0, 0, 0, 8), Txt4Net(10, 0, 0, 6, 31), Txt4Net(192, 168, 1, 0, 24),
      Txt4Net(0, 0, 0, 0, 0), Txt4(10, 0, 0, 5), Txt4(203, 0, 113, 5),
      Txt6Net(db8 \o Zeros(12), 32), Txt6(Addr6fe80),
      TxtJunk, Txt4Net(10, 0, 0, 5, 33), Txt4(300, 0, 0, 5) }

SeqsUpTo(S, n) == UNION { [1..k -> S] : k \in 0..n }

RuleSets == SeqsUpTo(RuleTexts, MaxRules)

NoVerdict == [done |-> FALSE, result |-> FALSE]

PolInit ==
    /\ polIn \in [clientIP : { ParseIP(t) : t \in AddrTexts }, allowedSubnets : RuleSets]
    /\ polOut = NoVerdict

PolIdle ==
    /\ polIn = [clientIP |-> <<>>, allowedSubnets |-> <<>>]
    /\ polOut = NoVerdict

Evaluate ==
    /\ ~polOut.done
    /\ polOut' = [done |-> TRUE, result |-> IsAllowed(polIn.clientIP, polIn.allowedSubnets)]
    /\ UNCHANGED <<polIn, sessVars, sndVars, credVars>>

(***************************************************************************)
(* The SMTP session: internal/smtp/relay.go.                               *)
(***************************************************************************)

\* Errors a callback returns: nil, a plain Go error, or an *smtp.SMTPError.
NoErr == [kind |-> "nil", code |-> 0, text |-> ""]
PlainError(text) == [kind |-> "error", code |-> 0, text |-> text]
SMTPError(code, text) == [kind |-> "smtp", code |-> code, text |-> text]

\* Texts that are searched are kept as sequences of characters.
quota == <<"q", "u", "o", "t", "a">>
authentication == <<"a", "u", "t", "h", "e", "n", "t", "i", "c", "a", "t", "i", "o", "n">>
sp == <<" ">>

\* strings.Contains.
StrContains(s, substr) ==
    \E i \in 0..(Len(s) - Len(substr)) : SubSeq(s, i + 1, i + Len(substr)) = substr

\* What gmail.Service.Send may answer: a message with its id, or an error whose
\* text is any of these.
SendErrTexts ==
    { <<"p", "a", "r", "s", "e">>,
      <<"4", "2", "9", " ">> \o quota \o <<"s">>,
      <<"Q", "u", "o", "t", "a">>,
      <<"n", "o", " ">> \o authentication,
      authentication \o sp \o quota }

SendResults ==
    { [ok |-> TRUE, id |-> "msg-1", err |-> <<>>] }
        \cup { [ok |-> FALSE, id |-> "", err |-> t] : t \in SendErrTexts }

\* The names and secrets the model draws from.
PlainMech == "PLAIN"
Mechs == {"PLAIN", "LOGIN"}
DefaultSMTPPassword == "smoggmos"
UserNames == {"relay", "Relay"}
Passwords == {"s3cret", DefaultSMTPPassword}
Senders == {"f1", "f2"}
Recipients == {"r1", "r2"}

BytesPerMB == 1024 * 1024

limitBytes(c) == c.MessageSizeLimitMB * 1024 * 1024

\* A stream given to Data: len bytes, then EOF, or a read error when fails.
StreamLens ==
    { 100, (BytesPerMB * 3) \div 4 + 1, BytesPerMB, BytesPerMB + 1, 2 * BytesPerMB }

Streams == [len : StreamLens, fails : BOOLEAN]

\* The remote address of a connection: the text of the host, and whether the
\* address has the form host:port.
RemoteAddrs ==
    [host : { Txt4(10, 0, 0, 5), Txt4(203, 0, 113, 5), TxtJunk }, port : BOOLEAN]

Configs ==
    [SMTPUser : {"relay"},
     SMTPPassword : {"s3cret", DefaultSMTPPassword},
     MessageSizeLimitMB : {0, 1},
     AllowedSubnets : { <<TxtJunk, Txt4Net(10, 0, 0, 0, 8)>> }]

NoSession ==
    [open |-> FALSE, clientIP |-> <<>>, from |-> "", to |-> <<>>, data |-> 0, writes |-> 0]
NoSend == [n |-> 0, to |-> <<>>, raw |-> 0, res |-> <<>>]
NoCall ==
    [op |-> "none", arg |-> <<>>, err |-> NoErr, session |-> FALSE, send |-> NoSend,
     retry |-> FALSE, given |-> <<>>]

SessInit ==
    /\ cfg \in Configs
    /\ sess = NoSession
    /\ authed = FALSE
    /\ lastRet = NoCall

SessIdle ==
    /\ cfg = [SMTPUser |-> "", SMTPPassword |-> "", MessageSizeLimitMB |-> 0,
              AllowedSubnets |-> <<>>]
    /\ sess = NoSession
    /\ authed = FALSE
    /\ lastRet = NoCall

\* The record of a callback; given is the log of the addresses given to Rcpt
\* since the last Mail or Reset, which Rcpt, Mail and Reset update.
Returned(op, arg, err) ==
    [op |-> op, arg |-> arg, err |-> err, session |-> FALSE, send |-> NoSend,
     retry |-> FALSE, given |-> lastRet.given]

\* Backend.newSession: the error it returns and whether it returns a Session.
AccessDenied == SMTPError(554, "access denied")

\* A slip: the policy's verdict is logged but the Session is returned all the same.
NewSessionResultIgnoringPolicy(c, remoteAddr) ==
    IF ~remoteAddr.port
        THEN [err |-> PlainError("internal server error: could not parse address"),
              session |-> FALSE, ip |-> <<>>]
    ELSE IF ParseIP(remoteAddr.host) = <<>>
        THEN [err |-> PlainError("internal server error: could not parse ip"),
              session |-> FALSE, ip |-> <<>>]
    ELSE [err |-> NoErr, session |-> TRUE, ip |-> ParseIP(remoteAddr.host)]

NewSessionResult(c, remoteAddr) ==
    IF ~remoteAddr.port
        THEN [err |-> PlainError("internal server error: could not parse address"),
              session |-> FALSE, ip |-> <<>>]
    ELSE IF ParseIP(remoteAddr.host) = <<>>
        THEN [err |-> PlainError("internal server error: could not parse ip"),
              session |-> FALSE, ip |-> <<>>]
    ELSE IF ~IsAllowed(ParseIP(remoteAddr.host), c.AllowedSubnets)
        THEN [err |-> AccessDenied, session |-> FALSE, ip |-> <<>>]
    ELSE [err |-> NoErr, session |-> TRUE, ip |-> ParseIP(remoteAddr.host)]

newSession(remoteAddr) ==
    LET r == NewSessionResult(cfg, remoteAddr)
    IN  /\ ~sess.open
        /\ sess' = IF r.session
                       THEN [open |-> TRUE, clientIP |-> r.ip, from |-> "", to |-> <<>>,
                             data |-> 0, writes |-> 0]
                       ELSE sess
        /\ lastRet' = [Returned("newSession", remoteAddr, r.err) EXCEPT !.session = r.session]
        /\ UNCHANGED <<cfg, authed>>

\* The check the PLAIN server makes on the credentials it is given.
InvalidCredentials == PlainError("invalid username or password")

\* A slip: /\ for \/, so that one right field is enough.
AuthenticateEitherField(c, username, password) ==
    IF username # c.SMTPUser /\ password # c.SMTPPassword
        THEN InvalidCredentials
    ELSE NoErr

\* A slip: the error names the field that was wrong.
AuthenticateNamingField(c, username, password) ==
    IF username # c.SMTPUser THEN PlainError("invalid username")
    ELSE IF password # c.SMTPPassword THEN PlainError("invalid password")
    ELSE NoErr

Authenticate(c, username, password) ==
    IF username # c.SMTPUser \/ password # c.SMTPPassword
        THEN InvalidCredentials
    ELSE NoErr

\* Session.Auth and the sasl.Server it returns, given the client's credentials.
AuthResult(c, mech, username, password) ==
    IF mech # PlainMech THEN PlainError("unsupported authentication mechanism")
    ELSE Authenticate(c, username, password)

Auth(mech, identity, username, password) ==
    LET err == AuthResult(cfg, mech, username, password)
    IN  /\ sess.open
        /\ lastRet' = [Returned("Auth", [mech |-> mech, identity |-> identity,
                                          username |-> username, password |-> password], err)
                           EXCEPT !.retry = (lastRet.op = "Auth" /\ lastRet.err # NoErr)]
        /\ authed' = (authed \/ err = NoErr)
        /\ UNCHANGED <<cfg, sess>>

\* A slip: the buffer is left as it is.
ResetSessionKeepingData(s) == [s EXCEPT !.from = "", !.to = <<>>]

\* Session.Reset.
ResetSession(s) == [s EXCEPT !.from = "", !.to = <<>>, !.data = 0, !.writes = 0]

\* The transaction a callback finds: the sender, the recipients and the length
\* of the buffer.
Transaction(s) == [from |-> s.from, to |-> s.to, data |-> s.data]

\* A slip: the sender is recorded without the call of Reset.
MailWithoutReset(from) ==
    /\ sess.open
    /\ sess' = [sess EXCEPT !.from = from]
    /\ lastRet' = [Returned("Mail", [from |-> from, before |-> Transaction(sess),
                                     afterReset |-> lastRet.op = "Reset"], NoErr)
                       EXCEPT !.given = <<>>]
    /\ UNCHANGED <<cfg, authed>>

Mail(from) ==
    /\ sess.open
    /\ sess' = [ResetSession(sess) EXCEPT !.from = from]
    /\ lastRet' = [Returned("Mail", [from |-> from, before |-> Transaction(sess),
                                     afterReset |-> lastRet.op = "Reset"], NoErr)
                       EXCEPT !.given = <<>>]
    /\ UNCHANGED <<cfg, authed>>

\* A slip: an address that is in the list already is not added again.
RcptWithoutDuplicates(to) ==
    /\ sess.open
    /\ Len(sess.to) < MaxRcpt
    /\ sess' = [sess EXCEPT !.to = IF \E i \in 1..Len(sess.to) : sess.to[i] = to
                                       THEN sess.to ELSE Append(sess.to, to)]
    /\ lastRet' = [Returned("Rcpt", to, NoErr) EXCEPT !.given = Append(lastRet.given, to)]
    /\ UNCHANGED <<cfg, authed>>

Rcpt(to) ==
    /\ sess.open
    /\ Len(sess.to) < MaxRcpt
    /\ sess' = [sess EXCEPT !.to = Append(sess.to, to)]
    /\ lastRet' = [Returned("Rcpt", to, NoErr) EXCEPT !.given = Append(lastRet.given, to)]
    /\ UNCHANGED <<cfg, authed>>

Reset ==
    /\ sess.open
    /\ sess' = ResetSession(sess)
    /\ lastRet' = [Returned("Reset", [before |-> Transaction(sess)], NoErr)
                       EXCEPT !.given = <<>>]
    /\ UNCHANGED <<cfg, authed>>

Logout ==
    /\ sess.open
    /\ lastRet' = Returned("Logout", [before |-> Transaction(sess)], NoErr)
    /\ UNCHANGED <<cfg, sess, authed>>

\* io.Copy(&s.data, r), r the stream itself or io.LimitReader(r, limitBytes+1):
\* the bytes that reach the buffer, and whether the copy ends in a read error
\* (a limited reader never reads its stream past the limit).
CopyStream(c, stream) ==
    IF c.MessageSizeLimitMB > 0
        THEN [n |-> Min(stream.len, limitBytes(c) + 1),
              failed |-> stream.fails /\ stream.len < limitBytes(c) + 1]
    ELSE [n |-> stream.len, failed |-> stream.fails]

ReadError == PlainError("read error")

\* The size check of Data, made on the whole buffer.
SizeExceeded(c, dataLen) == c.MessageSizeLimitMB > 0 /\ dataLen > limitBytes(c)

\* A slip: the policy code 554 for the size code 552.
SizeExceededErrorWrongCode == SMTPError(554, "Message size %.2f MB exceeds limit of %d MB")

\* The text is kept as its format; the numbers it is filled with are not modelled.
SizeExceededError == SMTPError(552, "Message size %.2f MB exceeds limit of %d MB")

\* A slip: the authentication check made before the quota check.
RelayErrorAuthFirst(errText) ==
    IF StrContains(errText, authentication)
        THEN SMTPError(535, "Authentication required - please run 'smog auth login'")
    ELSE IF StrContains(errText, quota)
        THEN SMTPError(452, "Service temporarily unavailable due to quota limits")
    ELSE SMTPError(451, "Temporary failure relaying message")

\* An earlier revision of Data: one generic error, not an SMTP error.
RelayErrorGeneric(errText) == PlainError("failed to relay message")

\* The answer of Data to an error of Send.
RelayError(errText) ==
    IF StrContains(errText, quota)
        THEN SMTPError(452, "Service temporarily unavailable due to quota limits")
    ELSE IF StrContains(errText, authentication)
        THEN SMTPError(535, "Authentication required - please run 'smog auth login'")
    ELSE SMTPError(451, "Temporary failure relaying message")

DataResult(res) == IF res.ok THEN NoErr ELSE RelayError(res.err)

Data(stream, res) ==
    LET cp == CopyStream(cfg, stream)
        data == sess.data + cp.n
        arg == [stream |-> stream, before |-> sess.data]
    IN  /\ sess.open
        /\ sess.writes < MaxData
        /\ sess' = [sess EXCEPT !.data = data, !.writes = @ + 1]
        /\ lastRet' =
               IF cp.failed THEN Returned("Data", arg, ReadError)
               ELSE IF SizeExceeded(cfg, data) THEN Returned("Data", arg, SizeExceededError)
               ELSE [Returned("Data", arg, DataResult(res))
                         EXCEPT !.send = [n |-> 1, to |-> sess.to, raw |-> data, res |-> res]]
        /\ UNCHANGED <<cfg, authed>>

(***************************************************************************)
(* The dispatcher: gmail.Client.Send and replaceToHeader.  A text is a     *)
(* sequence of characters, a []byte a sequence of numbers 0..255.          *)
(***************************************************************************)

\* The printable ASCII characters, from 0x20 to 0x7E (the grave accent, which no
\* string of this language can hold, by its name).
Printable ==
    <<" ", "!", "\"", "#", "$", "%", "&", "'", "(", ")", "*", "+", ",", "-", ".", "/",
      "0", "1", "2", "3", "4", "5", "6", "7", "8", "9", ":", ";", "<", "=", ">", "?",
      "@", "A", "B", "C", "D", "E", "F", "G", "H", "I", "J", "K", "L", "M", "N", "O",
      "P", "Q", "R", "S", "T", "U", "V", "W", "X", "Y", "Z", "[", "\\", "]", "^", "_",
      "grave", "a", "b", "c", "d", "e", "f", "g", "h", "i", "j", "k", "l", "m", "n", "o",
      "p", "q", "r", "s", "t", "u", "v", "w", "x", "y", "z", "{", "|", "}", "~">>

CR == "\r"
LF == "\n"
TAB == "\t"

\* []byte(s) and string(b), one character at a time.
Code(ch) ==
    IF ch = CR THEN 13
    ELSE IF ch = LF THEN 10
    ELSE IF ch = TAB THEN 9
    ELSE 31 + (CHOOSE i \in 1..Len(Printable) : Printable[i] = ch)

Chr(b) ==
    IF b = 13 THEN CR
    ELSE IF b = 10 THEN LF
    ELSE IF b = 9 THEN TAB
    ELSE Printable[b - 31]

Bytes(s) == [i \in 1..Len(s) |-> Code(s[i])]
String(b) == [i \in 1..Len(b) |-> Chr(b[i])]

\* The alphabet of base64.URLEncoding.
encodeURL ==
    <<"A", "B", "C", "D", "E", "F", "G", "H", "I", "J", "K", "L", "M", "N", "O", "P",
      "Q", "R", "S", "T", "U", "V", "W", "X", "Y", "Z", "a", "b", "c", "d", "e", "f",
      "g", "h", "i", "j", "k", "l", "m", "n", "o", "p", "q", "r", "s", "t", "u", "v",
      "w", "x", "y", "z", "0", "1", "2", "3", "4", "5", "6", "7", "8", "9", "-", "_">>

\* The 6-bit groups of a byte sequence; the last group of a sequence whose length
\* is not a multiple of 3 is filled with zero bits.
RECURSIVE Sextets(_)
Sextets(b) ==
    IF Len(b) = 0 THEN <<>>
    ELSE IF Len(b) = 1 THEN <<b[1] \div 4, (b[1] % 4) * 16>>
    ELSE IF Len(b) = 2
        THEN <<b[1] \div 4, (b[1] % 4) * 16 + b[2] \div 16, (b[2] % 16) * 4>>
    ELSE <<b[1] \div 4, (b[1] % 4) * 16 + b[2] \div 16,
           (b[2] % 16) * 4 + b[3] \div 64, b[3] % 64>>
             \o Sextets(SubSeq(b, 4, Len(b)))

\* base64.RawURLEncoding.EncodeToString: no padding.
EncodeToString(b) == LET sx == Sextets(b) IN [i \in 1..Len(sx) |-> encodeURL[sx[i] + 1]]

\* base64.RawURLEncoding.DecodeString, as the receiver of the payload applies it.
DecodeChar(ch) ==
    IF \E i \in 1..Len(encodeURL) : encodeURL[i] = ch
        THEN (CHOOSE i \in 1..Len(encodeURL) : encodeURL[i] = ch) - 1
    ELSE -1

RECURSIVE Octets(_)
Octets(sx) ==
    IF Len(sx) <= 1 THEN <<>>
    ELSE IF Len(sx) = 2 THEN <<sx[1] * 4 + sx[2] \div 16>>
    ELSE IF Len(sx) = 3
        THEN <<sx[1] * 4 + sx[2] \div 16, (sx[2] % 16) * 16 + sx[3] \div 4>>
    ELSE <<sx[1] * 4 + sx[2] \div 16, (sx[2] % 16) * 16 + sx[3] \div 4,
           (sx[3] % 4) * 64 + sx[4]>>
             \o Octets(SubSeq(sx, 5, Len(sx)))

DecodeString(s) ==
    LET sx == [i \in 1..Len(s) |-> DecodeChar(s[i])]
    IN  IF (\E i \in 1..Len(s) : sx[i] = -1) \/ Len(s) % 4 = 1
            THEN [ok |-> FALSE, bytes |-> <<>>]
        ELSE [ok |-> TRUE, bytes |-> Octets(sx)]

\* Texts of the model, written out character by character.
colon == ":"
space == " "
CRLF == <<CR, LF>>
commaSpace == <<",", " ">>
ToKey == <<"T", "o">>

IsSpace(ch) == ch = space \/ ch = TAB

\* textproto's trim and bytes.TrimLeft(v, " \t").
RECURSIVE TrimLeft(_)
TrimLeft(s) == IF Len(s) > 0 /\ IsSpace(s[1]) THEN TrimLeft(Tail(s)) ELSE s

RECURSIVE TrimRight(_)
TrimRight(s) ==
    IF Len(s) > 0 /\ IsSpace(s[Len(s)]) THEN TrimRight(SubSeq(s, 1, Len(s) - 1)) ELSE s

Trim(s) == TrimRight(TrimLeft(s))

\* strings.Join.
RECURSIVE Join(_, _)
Join(elems, sep) ==
    IF Len(elems) = 0 THEN <<>>
    ELSE IF Len(elems) = 1 THEN elems[1]
    ELSE elems[1] \o sep \o Join(Tail(elems), sep)

\* The index of the first ch in s at or after i, 0 when there is none.
IndexFrom(s, ch, i) ==
    IF \E j \in i..Len(s) : s[j] = ch
        THEN CHOOSE j \in i..Len(s) : s[j] = ch /\ \A k \in i..(j - 1) : s[k] # ch
    ELSE 0

\* textproto.Reader.ReadLine from index i: the line without its "\n" or "\r\n",
\* and the index after it.
ReadLine(s, i) ==
    LET nl == IndexFrom(s, LF, i)
        end == IF nl = 0 THEN Len(s) ELSE nl - 1
        stop == IF end >= i /\ nl # 0 /\ s[end] = CR THEN end - 1 ELSE end
    IN  [text |-> SubSeq(s, i, stop), next |-> IF nl = 0 THEN Len(s) + 1 ELSE nl + 1]

\* The lines that continue a header line: each starts with a space or a tab and
\* is joined to the line by one space.
RECURSIVE ContinueLine(_, _, _)
ContinueLine(s, text, i) ==
    IF i <= Len(s) /\ IsSpace(s[i])
        THEN LET l == ReadLine(s, i)
             IN  ContinueLine(s, text \o <<space>> \o Trim(l.text), l.next)
    ELSE [text |-> text, next |-> i]

\* textproto.Reader.readContinuedLineSlice.
ReadContinuedLine(s, i) ==
    LET l == ReadLine(s, i)
    IN  IF Len(l.text) = 0 THEN l ELSE ContinueLine(s, Trim(l.text), l.next)

IsUpper(ch) == Code(ch) \in 65..90
IsLower(ch) == Code(ch) \in 97..122

\* The bytes textproto takes in a header key without giving up on it: letters,
\* digits and "-" among the characters the model writes keys with.
ValidHeaderFieldByte(ch) == IsUpper(ch) \/ IsLower(ch) \/ Code(ch) \in 48..57 \/ ch = "-"

\* textproto.canonicalMIMEHeaderKey: the first letter and every letter after a
\* "-" in upper case, the others in lower case.
CanonicalMIMEHeaderKey(k) ==
    [i \in 1..Len(k) |->
        LET upper == i = 1 \/ k[i - 1] = "-"
        IN  IF upper /\ IsLower(k[i]) THEN Chr(Code(k[i]) - 32)
            ELSE IF ~upper /\ IsUpper(k[i]) THEN Chr(Code(k[i]) + 32)
            ELSE k[i]]

\* A mail.Header: the keys in the order they were first met, and the values of
\* each key in the order of their lines.
NoHeader == [keys |-> <<>>, vals |-> <<>>]

KeyIndex(h, k) ==
    IF \E i \in 1..Len(h.keys) : h.keys[i] = k
        THEN CHOOSE i \in 1..Len(h.keys) : h.keys[i] = k
    ELSE 0

HeaderHas(h, k) == KeyIndex(h, k) # 0
HeaderGet(h, k) == IF HeaderHas(h, k) THEN h.vals[KeyIndex(h, k)] ELSE <<>>

\* m[key] = append(m[key], value).
HeaderAdd(h, k, v) ==
    IF HeaderHas(h, k) THEN [h EXCEPT !.vals[KeyIndex(h, k)] = Append(@, v)]
    ELSE [keys |-> Append(h.keys, k), vals |-> Append(h.vals, <<v>>)]

\* msg.Header[k] = []string{v}.
HeaderSet(h, k, v) ==
    IF HeaderHas(h, k) THEN [h EXCEPT !.vals[KeyIndex(h, k)] = <<v>>]
    ELSE [keys |-> Append(h.keys, k), vals |-> Append(h.vals, <<v>>)]

\* delete(msg.Header, k).
HeaderDelete(h, k) ==
    LET keep == { i \in 1..Len(h.keys) : h.keys[i] # k }
        at(n) == CHOOSE i \in keep : Cardinality({ j \in keep : j < i }) = n - 1
    IN  [keys |-> [n \in 1..Cardinality(keep) |-> h.keys[at(n)]],
         vals |-> [n \in 1..Cardinality(keep) |-> h.vals[at(n)]]]

NoMessage == [ok |-> FALSE, Header |-> NoHeader, Body |-> <<>>]

\* textproto.Reader.ReadMIMEHeader from index i, h the header read so far: the
\* end of the text before the blank line is an error, as is a line without a
\* colon or with a key that is empty or holds an invalid byte.
RECURSIVE ReadMIMEHeaderFrom(_, _, _)
ReadMIMEHeaderFrom(s, i, h) ==
    IF i > Len(s) THEN NoMessage
    ELSE LET l == ReadContinuedLine(s, i)
             c == IndexFrom(l.text, colon, 1)
             k == SubSeq(l.text, 1, c - 1)
             v == SubSeq(l.text, c + 1, Len(l.text))
         IN  IF Len(l.text) = 0
                 THEN [ok |-> TRUE, Header |-> h, Body |-> SubSeq(s, l.next, Len(s))]
             ELSE IF c = 0 THEN NoMessage
             ELSE IF Len(k) = 0 \/ \E j \in 1..Len(k) : ~ValidHeaderFieldByte(k[j])
                 THEN NoMessage
             ELSE ReadMIMEHeaderFrom(s, l.next,
                                     HeaderAdd(h, CanonicalMIMEHeaderKey(k), TrimLeft(v)))

\* mail.ReadMessage: the first line of a message cannot start with a space.
ReadMessage(s) ==
    IF Len(s) > 0 /\ IsSpace(s[1]) THEN NoMessage
    ELSE ReadMIMEHeaderFrom(s, 1, NoHeader)

\* A slip: the To header is set only when the message has none.
ReplaceToWhenAbsent(h, recipients) ==
    IF Len(recipients) > 0 /\ ~HeaderHas(h, ToKey)
        THEN HeaderSet(h, ToKey, Join(recipients, commaSpace))
    ELSE h

\* A slip: with no recipients the header is left as it was.
ReplaceToKeepingGiven(h, recipients) ==
    IF Len(recipients) > 0 THEN HeaderSet(h, ToKey, Join(recipients, commaSpace))
    ELSE h

\* The header replaceToHeader writes: To is the recipients joined by ", ", and
\* is deleted when there are none.
ReplaceTo(h, recipients) ==
    IF Len(recipients) > 0 THEN HeaderSet(h, ToKey, Join(recipients, commaSpace))
    ELSE HeaderDelete(h, ToKey)

\* The orders in which a range over a map of n keys may visit them.
Orders(n) == { o \in [1..n -> 1..n] : \A i, j \in 1..n : o[i] = o[j] => i = j }

\* fmt.Sprintf("%s: %s\r\n", k, strings.Join(v, ", ")) for the keys in the order
\* the range visits them.
RECURSIVE WriteHeader(_, _)
WriteHeader(h, order) ==
    IF Len(order) = 0 THEN <<>>
    ELSE h.keys[order[1]] \o <<colon, space>> \o Join(h.vals[order[1]], commaSpace) \o CRLF
             \o WriteHeader(h, Tail(order))

\* A slip: the empty line that ends the header block is not written.
replaceToHeaderNoSeparator(recipients, rawEmail, order) ==
    LET msg == ReadMessage(rawEmail)
    IN  IF ~msg.ok THEN [ok |-> FALSE, bytes |-> <<>>]
        ELSE [ok |-> TRUE,
              bytes |-> Bytes(WriteHeader(ReplaceTo(msg.Header, recipients), order)
                                  \o msg.Body)]

\* replaceToHeader, order being the order of the range over msg.Header.
replaceToHeader(recipients, rawEmail, order) ==
    LET msg == ReadMessage(rawEmail)
    IN  IF ~msg.ok THEN [ok |-> FALSE, bytes |-> <<>>]
        ELSE [ok |-> TRUE,
              bytes |-> Bytes(WriteHeader(ReplaceTo(msg.Header, recipients), order)
                                  \o CRLF \o msg.Body)]

HeaderOrders(recipients, rawEmail) ==
    Orders(Len(ReplaceTo(ReadMessage(rawEmail).Header, recipients).keys))

\* The header lines, bodies and recipients the model builds its inputs from.
MaxHdrs == 2

HeaderLines ==
    { <<"T", "o", ":", " ", "a", "@", "x">>,
      <<"t", "o", ":", "b", "@", "y">>,
      <<"T", "O", ":", " ", "a", "@", "x", ",", CR, LF, " ", "b", "@", "y">>,
      <<"S", "u", "b", "j", "e", "c", "t", ":", " ", "h", "i">>,
      <<"X", "-", "t", "o", ":", " ", "c", "@", "z">>,
      <<"b", "a", "d">> }

Bodies ==
    { <<>>, <<"T", "o", ":", " ", "z", CR, LF>>, <<CR, LF, "x">>, <<" ", "x", LF>> }

RcptTexts == { <<"r", "1", "@", "x">>, <<"r", "2", "@", "y">> }

RawEmail(lines, body) == Join([i \in 1..Len(lines) |-> lines[i] \o CRLF], <<>>) \o CRLF \o body

RawEmails == { RawEmail(ls, b) : ls \in SeqsUpTo(HeaderLines, MaxHdrs), b \in Bodies }

NoSubmission == [done |-> FALSE, submitted |-> FALSE, Raw |-> <<>>, err |-> ""]

SndInit ==
    /\ sndIn \in [recipients : SeqsUpTo(RcptTexts, MaxRcpt), rawEmail : RawEmails]
    /\ sndOut = NoSubmission

\* Client.Send: the message is rewritten, encoded and submitted; apiErr is the
\* answer of the API to the submission.
SendOutcome(recipients, rawEmail, order, apiErr) ==
    LET r == replaceToHeader(recipients, rawEmail, order)
    IN  IF ~r.ok
            THEN [done |-> TRUE, submitted |-> FALSE, Raw |-> <<>>,
                  err |-> "failed to parse raw email"]
        ELSE [done |-> TRUE, submitted |-> TRUE, Raw |-> EncodeToString(r.bytes),
              err |-> IF apiErr THEN "failed to send email" ELSE ""]

Send(order, apiErr) ==
    /\ ~sndOut.done
    /\ sndOut' = SendOutcome(sndIn.recipients, sndIn.rawEmail, order, apiErr)
    /\ UNCHANGED <<sndIn, sessVars, polVars, credVars>>

SndIdle ==
    /\ sndIn = [recipients |-> <<>>, rawEmail |-> <<>>]
    /\ sndOut = NoSubmission

(***************************************************************************)
(* The credential: internal/auth/google.go.                                *)
(***************************************************************************)

\* The times a token may expire at, as they are written in the token file: the
\* zero time (a token that never expires), a time before now and a time after it.
ZeroTime == "0001-01-01T00:00:00Z"
Past == "2020-01-01T00:00:00Z"
Future == "2099-01-01T00:00:00Z"
Times == {ZeroTime, Past, Future}

\* An *oauth2.Token: nil, or the fields that are written to the token file.
NilToken == [nil |-> TRUE, AccessToken |-> "", RefreshToken |-> "", Expiry |-> ZeroTime]
Token(a, r, e) == [nil |-> FALSE, AccessToken |-> a, RefreshToken |-> r, Expiry |-> e]

\* The tokens an exchange may return.
Tokens == { Token("a1", "r1", Future), Token("a2", "", Past), Token("a3", "r3", Past) }

\* The tokens a token file may hold when the server is started.
StoredTokens == { Token(a, r, e) : a \in {"a1", ""}, r \in {"r1", ""}, e \in Times }

\* json.NewEncoder(f).Encode(token): the text written, as a sequence of lexemes
\* ending with a newline; refresh_token has omitempty and is left out when empty.
Encode(tok) ==
    IF tok.nil THEN <<"null", "\n">>
    ELSE <<"{", "access_token", tok.AccessToken>>
             \o (IF tok.RefreshToken # "" THEN <<"refresh_token", tok.RefreshToken>> ELSE <<>>)
             \o <<"expiry", tok.Expiry, "}", "\n">>

DecodeError == [ok |-> FALSE, tok |-> NilToken]

\* json.NewDecoder(f).Decode(&oauth2.Token{}): the first JSON value of the text
\* is read into a zero token; null leaves it as it is, an object sets the fields
\* it names (the last of a repeated key) and its other keys are passed over; no
\* value, a value cut short, a value of another kind or a time that does not
\* parse is an error.
Decode(text) ==
    IF Len(text) = 0 THEN DecodeError
    ELSE IF text[1] = "null" THEN [ok |-> TRUE, tok |-> Token("", "", ZeroTime)]
    ELSE IF text[1] # "{" THEN DecodeError
    ELSE LET close == IndexFrom(text, "}", 2)
             Field(key, default) ==
                 LET at == { i \in 2..(close - 1) : i % 2 = 0 /\ text[i] = key }
                 IN  IF at = {} THEN default
                     ELSE text[(CHOOSE i \in at : \A j \in at : j <= i) + 1]
         IN  IF close = 0 \/ close % 2 = 1 THEN DecodeError
             ELSE IF Field("expiry", ZeroTime) \notin Times THEN DecodeError
             ELSE [ok |-> TRUE,
                   tok |-> Token(Field("access_token", ""), Field("refresh_token", ""),
                                 Field("expiry", ZeroTime))]

\* Files: cfg.GoogleTokenPath, and the paths made from it by adding ".bak".
GoogleTokenPath == <<"token.json">>
backupPath(path) == Append(path, ".bak")
Paths == { GoogleTokenPath, backupPath(GoogleTokenPath), backupPath(backupPath(GoogleTokenPath)) }

Absent == [exists |-> FALSE, data |-> <<>>]
File(data) == [exists |-> TRUE, data |-> data]

\* make([]byte, stat.Size()): zeros, as long as the file.
ZeroChunk == "\\0"
Zeroed(data) == [i \in 1..Len(data) |-> ZeroChunk]

NoError == ""

\* A slip: a file that does not exist is an error, as a file that cannot be read is.
LoadResultStrict(fs, openFails) ==
    IF ~fs[GoogleTokenPath].exists \/ openFails
        THEN [tok |-> NilToken,
              err |-> "failed to get token from file: failed to open token file"]
    ELSE LET d == Decode(fs[GoogleTokenPath].data)
         IN  IF ~d.ok
                 THEN [tok |-> NilToken,
                       err |-> "failed to get token from file: failed to decode token"]
             ELSE [tok |-> d.tok, err |-> NoError]

\* tokenFromFile and LoadToken: a file that does not exist is no token and no
\* error; a file that cannot be opened or decoded is an error.
LoadResult(fs, openFails) ==
    IF ~fs[GoogleTokenPath].exists THEN [tok |-> NilToken, err |-> NoError]
    ELSE IF openFails
        THEN [tok |-> NilToken,
              err |-> "failed to get token from file: failed to open token file"]
    ELSE LET d == Decode(fs[GoogleTokenPath].data)
         IN  IF ~d.ok
                 THEN [tok |-> NilToken,
                       err |-> "failed to get token from file: failed to decode token"]
             ELSE [tok |-> d.tok, err |-> NoError]

\* The failures the operating system may answer a step of saveToken with.
SaveFailures == {"none", "mkdir", "rename", "open", "write", "short"}

\* A slip: an existing backup is kept, as <path>.bak.bak, when a new one is made.
SaveResultChaining(fs, path, token, fail) ==
    LET backupPathOf == backupPath(path)
        kept == IF fs[path].exists /\ fs[backupPathOf].exists
                    THEN [fs EXCEPT ![backupPath(backupPathOf)] = fs[backupPathOf]]
                ELSE fs
        backed == IF fs[path].exists
                      THEN [kept EXCEPT ![backupPathOf] = fs[path], ![path] = Absent]
                  ELSE fs
    IN  IF fail = "mkdir" THEN [fs |-> fs, err |-> "cannot create token directory"]
        ELSE IF fs[path].exists /\ fail = "rename"
            THEN [fs |-> fs, err |-> "failed to backup token"]
        ELSE IF fail = "open" THEN [fs |-> backed, err |-> "unable to cache oauth token"]
        ELSE IF fail = "write"
            THEN [fs |-> [backed EXCEPT ![path] = File(<<>>)], err |-> "write error"]
        ELSE IF fail = "short"
            THEN [fs |-> [backed EXCEPT ![path] = File(SubSeq(Encode(token), 1, 3))],
                  err |-> "write error"]
        ELSE [fs |-> [backed EXCEPT ![path] = File(Encode(token))], err |-> NoError]

\* A slip: the new token is written over the existing file, with no backup.
SaveResultInPlace(fs, path, token, fail) ==
    IF fail = "mkdir" THEN [fs |-> fs, err |-> "cannot create token directory"]
    ELSE IF fail = "open" THEN [fs |-> fs, err |-> "unable to cache oauth token"]
    ELSE IF fail = "write"
        THEN [fs |-> [fs EXCEPT ![path] = File(<<>>)], err |-> "write error"]
    ELSE IF fail = "short"
        THEN [fs |-> [fs EXCEPT ![path] = File(SubSeq(Encode(token), 1, 3))],
              err |-> "write error"]
    ELSE [fs |-> [fs EXCEPT ![path] = File(Encode(token))], err |-> NoError]

\* saveToken: the files it leaves and the error it returns.  An existing file is
\* renamed to <path>.bak, replacing a file of that name; the new file is created
\* (or truncated) and the token written to it.  A write that fails leaves the new
\* file empty or cut short.
SaveResult(fs, path, token, fail) ==
    LET backed == IF fs[path].exists
                      THEN [fs EXCEPT ![backupPath(path)] = fs[path], ![path] = Absent]
                  ELSE fs
    IN  IF fail = "mkdir" THEN [fs |-> fs, err |-> "cannot create token directory"]
        ELSE IF fs[path].exists /\ fail = "rename"
            THEN [fs |-> fs, err |-> "failed to backup token"]
        ELSE IF fail = "open" THEN [fs |-> backed, err |-> "unable to cache oauth token"]
        ELSE IF fail = "write"
            THEN [fs |-> [backed EXCEPT ![path] = File(<<>>)], err |-> "write error"]
        ELSE IF fail = "short"
            THEN [fs |-> [backed EXCEPT ![path] = File(SubSeq(Encode(token), 1, 3))],
                  err |-> "write error"]
        ELSE [fs |-> [backed EXCEPT ![path] = File(Encode(token))], err |-> NoError]

\* The failures the operating system may answer a step of RevokeToken with.
RevokeFailures == {"none", "open", "stat", "write", "remove"}

\* A slip: the file is removed as it is.
RevokeResultNoErase(fs, path, fail) ==
    IF ~fs[path].exists THEN [fs |-> fs, err |-> NoError, removed |-> Absent]
    ELSE IF fail = "open"
        THEN [fs |-> fs, err |-> "failed to open token file for writing", removed |-> Absent]
    ELSE IF fail = "stat"
        THEN [fs |-> fs, err |-> "failed to get token file info", removed |-> Absent]
    ELSE IF fail = "remove"
        THEN [fs |-> fs, err |-> "failed to delete token file", removed |-> Absent]
    ELSE [fs |-> [fs EXCEPT ![path] = Absent], err |-> NoError, removed |-> fs[path]]

\* A slip: a file that does not exist is an error.
RevokeResultStrict(fs, path, fail) ==
    IF ~fs[path].exists
        THEN [fs |-> fs, err |-> "failed to open token file for writing", removed |-> Absent]
    ELSE IF fail \in {"open", "stat", "write"}
        THEN [fs |-> fs, err |-> "failed to revoke", removed |-> Absent]
    ELSE IF fail = "remove"
        THEN [fs |-> [fs EXCEPT ![path] = File(Zeroed(fs[path].data))],
              err |-> "failed to delete token file", removed |-> Absent]
    ELSE [fs |-> [fs EXCEPT ![path] = Absent], err |-> NoError,
          removed |-> File(Zeroed(fs[path].data))]

\* A slip: a revocation that succeeds takes the backup away with the file.
RevokeResultWithBackup(fs, path, fail) ==
    IF ~fs[path].exists THEN [fs |-> fs, err |-> NoError, removed |-> Absent]
    ELSE IF fail = "open"
        THEN [fs |-> fs, err |-> "failed to open token file for writing", removed |-> Absent]
    ELSE IF fail = "stat"
        THEN [fs |-> fs, err |-> "failed to get token file info", removed |-> Absent]
    ELSE IF fail = "write"
        THEN [fs |-> fs, err |-> "failed to overwrite token file", removed |-> Absent]
    ELSE IF fail = "remove"
        THEN [fs |-> [fs EXCEPT ![path] = File(Zeroed(fs[path].data))],
              err |-> "failed to delete token file", removed |-> Absent]
    ELSE [fs |-> [fs EXCEPT ![path] = Absent, ![backupPath(path)] = Absent],
          err |-> NoError, removed |-> File(Zeroed(fs[path].data))]

\* RevokeToken: the files it leaves, the error it returns and the file as it was
\* when os.Remove took it away.  A file that does not exist is nothing to revoke;
\* a write that fails leaves the file as it was.
RevokeResult(fs, path, fail) ==
    IF ~fs[path].exists THEN [fs |-> fs, err |-> NoError, removed |-> Absent]
    ELSE IF fail = "open"
        THEN [fs |-> fs, err |-> "failed to open token file for writing", removed |-> Absent]
    ELSE IF fail = "stat"
        THEN [fs |-> fs, err |-> "failed to get token file info", removed |-> Absent]
    ELSE IF fail = "write"
        THEN [fs |-> fs, err |-> "failed to overwrite token file", removed |-> Absent]
    ELSE IF fail = "remove"
        THEN [fs |-> [fs EXCEPT ![path] = File(Zeroed(fs[path].data))],
              err |-> "failed to delete token file", removed |-> Absent]
    ELSE [fs |-> [fs EXCEPT ![path] = Absent], err |-> NoError,
          removed |-> File(Zeroed(fs[path].data))]

\* What getTokenFromBrowser returns: a token, or one of its errors.
exchangeFailed == "unable to retrieve token from web"
BrowserErrors ==
    { "could not open browser", exchangeFailed, "authorization code not found",
      "failed to start local server", "timed out waiting for authorization code" }
BrowserOutcomes ==
    { [tok |-> t, err |-> NoError] : t \in Tokens }
        \cup { [tok |-> NilToken, err |-> e] : e \in BrowserErrors }

\* getClientForLogin within Login: browser is what getTokenFromBrowser returns,
\* web what getTokenFromWeb returns (NilToken: an error).  A token is asked for
\* only when none was loaded, getTokenFromWeb is called for every error of
\* getTokenFromBrowser, and the token is saved only when one has been returned.
LoginFlow(fs, l, browser, web, saveFail) ==
    LET got == IF browser.err = NoError THEN browser.tok ELSE web
        s == SaveResult(fs, GoogleTokenPath, got, saveFail)
        asked == [browserErr |-> browser.err, manual |-> browser.err # NoError]
    IN  IF ~l.tok.nil
            THEN [fs |-> fs, err |-> NoError, tok |-> l.tok, exchange |-> "none",
                  saved |-> FALSE, browserErr |-> NoError, manual |-> FALSE]
        ELSE IF got.nil
            THEN [fs |-> fs, err |-> "unable to retrieve client: failed to get token manually",
                  tok |-> NilToken, exchange |-> "failed", saved |-> FALSE] @@ asked
        ELSE [fs |-> s.fs, err |-> s.err, tok |-> IF s.err = NoError THEN got ELSE NilToken,
              exchange |-> "ok", saved |-> TRUE] @@ asked

\* A slip: the file that could not be loaded is set aside before a token is asked for.
LoginResultBackupFirst(fs, credsOK, openFails, browser, web, saveFail, labelsOK) ==
    LET l == LoadResult(fs, openFails)
        aside == IF l.err # NoError
                     THEN [fs EXCEPT ![backupPath(GoogleTokenPath)] = fs[GoogleTokenPath],
                                     ![GoogleTokenPath] = Absent]
                 ELSE fs
        r == LoginFlow(aside, l, browser, web, saveFail)
    IN  IF ~credsOK
            THEN [fs |-> fs, err |-> "unable to read client secret file", tok |-> NilToken,
                  exchange |-> "none", saved |-> FALSE, browserErr |-> NoError,
                  manual |-> FALSE]
        ELSE IF r.err = NoError /\ ~labelsOK
            THEN [r EXCEPT !.err = "unable to retrieve labels"]
        ELSE r

\* Login: the client secret is read, the client is made (getClientForLogin) and
\* the connection is tried by listing the labels.
LoginResult(fs, credsOK, openFails, browser, web, saveFail, labelsOK) ==
    LET l == LoadResult(fs, openFails)
        r == LoginFlow(fs, l, browser, web, saveFail)
    IN  IF ~credsOK
            THEN [fs |-> fs, err |-> "unable to read client secret file", tok |-> NilToken,
                  exchange |-> "none", saved |-> FALSE, browserErr |-> NoError,
                  manual |-> FALSE]
        ELSE IF r.err = NoError /\ ~labelsOK
            THEN [r EXCEPT !.err = "unable to retrieve labels"]
        ELSE r

\* A slip: the server is started whatever the token file holds.
StartResultUnchecked(fs, defaultPassword, credsOK, openFails, bindOK) ==
    IF defaultPassword THEN [listening |-> FALSE, token |-> NilToken, err |-> "security risk"]
    ELSE IF ~credsOK
        THEN [listening |-> FALSE, token |-> NilToken,
              err |-> "could not get google api client"]
    ELSE IF ~bindOK THEN [listening |-> FALSE, token |-> NilToken, err |-> "smtp server error"]
    ELSE [listening |-> TRUE, token |-> LoadResult(fs, openFails).tok, err |-> NoError]

\* serveCmd, app.Run with no service injected and auth.GetClient: the process
\* exits when the password is the default, when the token cannot be loaded or is
\* not there, when the client secret cannot be read, or when the listener cannot
\* be started; otherwise the listener runs and the API client holds the token.
StartResult(fs, defaultPassword, credsOK, openFails, bindOK) ==
    LET l == LoadResult(fs, openFails)
    IN  IF defaultPassword
            THEN [listening |-> FALSE, token |-> NilToken, err |-> "security risk"]
        ELSE IF l.err # NoError
            THEN [listening |-> FALSE, token |-> NilToken,
                  err |-> "failed to load google api token"]
        ELSE IF l.tok.nil
            THEN [listening |-> FALSE, token |-> NilToken,
                  err |-> "google api token not found or invalid"]
        ELSE IF ~credsOK
            THEN [listening |-> FALSE, token |-> NilToken,
                  err |-> "could not get google api client"]
        ELSE IF ~bindOK
            THEN [listening |-> FALSE, token |-> NilToken, err |-> "smtp server error"]
        ELSE [listening |-> TRUE, token |-> l.tok, err |-> NoError]

\* oauth2.Token.Valid.
Valid(tok) == ~tok.nil /\ tok.AccessToken # "" /\ tok.Expiry # Past

RefreshedAccessToken == "a-new"

\* A slip: the client is given the stored token as it is (a static token source).
ClientTokenStatic(tok, refreshOK) == [ok |-> TRUE, tok |-> tok]

\* The token source of oauthConfig.Client(ctx, tok): the token it holds while it
\* is valid; otherwise a token obtained with the refresh token, when there is
\* one and the authorization server accepts it.
ClientToken(tok, refreshOK) ==
    IF Valid(tok) THEN [ok |-> TRUE, tok |-> tok]
    ELSE IF tok.RefreshToken = "" \/ ~refreshOK THEN [ok |-> FALSE, tok |-> tok]
    ELSE [ok |-> TRUE, tok |-> Token(RefreshedAccessToken, tok.RefreshToken, Future)]

\* The errors of a request to the API, as texts.
oauthErr == <<"o", "a", "u", "t", "h", "2", ":", " ", "c", "a", "n", "n", "o", "t", " ", "f", "e", "t", "c", "h", " ", "t", "o", "k", "e", "n">>
unauthorized == <<"E", "r", "r", "o", "r", " ", "4", "0", "1", ":", " ", "i", "n", "v", "a", "l", "i", "d", " ", "a", "u", "t", "h", "e", "n", "t", "i", "c", "a", "t", "i", "o", "n", " ", "c", "r", "e", "d", "e", "n", "t", "i", "a", "l", "s">>
rateLimited == <<"E", "r", "r", "o", "r", " ", "4", "2", "9", ":", " ", "q", "u", "o", "t", "a", " ", "e", "x", "c", "e", "e", "d", "e", "d">>

\* What Send answers a dispatch made with the client of the server: a request
\* without a token is not sent, a request with an expired token is refused, and
\* the API may refuse any request for its quota.
DispatchResult(tok, refreshOK, overQuota) ==
    LET t == ClientToken(tok, refreshOK)
    IN  IF ~t.ok THEN [ok |-> FALSE, id |-> "", err |-> oauthErr, tok |-> tok]
        ELSE IF ~Valid(t.tok) THEN [ok |-> FALSE, id |-> "", err |-> unauthorized, tok |-> t.tok]
        ELSE IF overQuota THEN [ok |-> FALSE, id |-> "", err |-> rateLimited, tok |-> t.tok]
        ELSE [ok |-> TRUE, id |-> "msg-1", err |-> <<>>, tok |-> t.tok]

\* The token files the model starts from: none, a saved token, and files that
\* hold no token: no byte, text that is no JSON, an object cut short, an object
\* without fields.
NoFiles == [p \in Paths |-> Absent]

TokenFileTexts ==
    { Encode(Token("a1", "r1", Future)), Encode(Token("a2", "", Past)),
      Encode(Token("a3", "r3", Past)), <<>>, <<"not", "json">>, <<"{", "access_token", "a1">>, <<"{", "}", "\n">> }

InitialFiles ==
    { [NoFiles EXCEPT ![GoogleTokenPath] = f] : f \in {Absent} \cup { File(x) : x \in TokenFileTexts } }

NoServer == [listening |-> FALSE, token |-> NilToken, connected |-> FALSE]

\* Before getTokenFromBrowser is called.  pc is where the calling goroutine is,
\* server where the goroutine of ListenAndServe is, senders the goroutines
\* blocked on a send to codeChan or errChan, oldest first.
NothingSent == [ch |-> "none", n |-> 0, code |-> "", err |-> NoError]

NoFlow ==
    [pc |-> "idle", server |-> "none", inShutdown |-> FALSE, senders |-> <<>>,
     requests |-> 0, waited |-> FALSE, branch |-> "none", got |-> NothingSent,
     exchanged |-> "", tok |-> NilToken, err |-> NoError, late |-> FALSE]

NoCredCall ==
    [op |-> "none", err |-> NoError, tok |-> NilToken, unchanged |-> TRUE, existed |-> FALSE,
     size |-> 0, removed |-> Absent, exchange |-> "none", saved |-> FALSE, smtp |-> NoErr,
     stored |-> NilToken, refreshOK |-> FALSE, overQuota |-> FALSE,
     prevSaved |-> NilToken, prevRevoked |-> FALSE,
     inflight |-> FALSE, remaining |-> 0, cut |-> FALSE,
     browserErr |-> NoError, manual |-> FALSE]

CredInit ==
    /\ files \in InitialFiles
    /\ srv = NoServer
    /\ credRet = NoCredCall
    /\ flow = NoFlow

CredIdle ==
    /\ files = NoFiles
    /\ srv = NoServer
    /\ credRet = NoCredCall
    /\ flow = NoFlow

\* The record of an operation: its result, whether it left the files as they
\* were, and what the operation before it was: a saveToken that succeeded (the
\* token it saved) or a RevokeToken that succeeded.
CredReturned(op, err, tok, fs) ==
    [NoCredCall EXCEPT !.op = op, !.err = err, !.tok = tok, !.unchanged = (fs = files),
                       !.existed = files[GoogleTokenPath].exists,
                       !.size = Len(files[GoogleTokenPath].data),
                       !.prevSaved = IF credRet.op = "saveToken" /\ credRet.err = NoError
                                         THEN credRet.tok ELSE NilToken,
                       !.prevRevoked = (credRet.op = "RevokeToken" /\ credRet.err = NoError)]

LoadToken(openFails) ==
    LET r == LoadResult(files, openFails)
    IN  /\ credRet' = CredReturned("LoadToken", r.err, r.tok, files)
        /\ UNCHANGED <<files, srv, flow, sessVars, polVars, sndVars>>

saveToken(token, fail) ==
    LET r == SaveResult(files, GoogleTokenPath, token, fail)
    IN  /\ files' = r.fs
        /\ credRet' = CredReturned("saveToken", r.err, token, r.fs)
        /\ UNCHANGED <<srv, flow, sessVars, polVars, sndVars>>

RevokeToken(fail) ==
    LET r == RevokeResult(files, GoogleTokenPath, fail)
    IN  /\ files' = r.fs
        /\ credRet' = [CredReturned("RevokeToken", r.err, NilToken, r.fs)
                           EXCEPT !.removed = r.removed]
        /\ UNCHANGED <<srv, flow, sessVars, polVars, sndVars>>

Login(credsOK, openFails, browser, web, saveFail, labelsOK) ==
    LET r == LoginResult(files, credsOK, openFails, browser, web, saveFail, labelsOK)
    IN  /\ files' = r.fs
        /\ credRet' = [CredReturned("Login", r.err, r.tok, r.fs)
                           EXCEPT !.exchange = r.exchange, !.saved = r.saved,
                                  !.browserErr = r.browserErr, !.manual = r.manual]
        /\ UNCHANGED <<srv, flow, sessVars, polVars, sndVars>>

\* The start of the server process.
Serve(defaultPassword, credsOK, openFails, bindOK) ==
    LET r == StartResult(files, defaultPassword, credsOK, openFails, bindOK)
    IN  /\ ~srv.listening
        /\ srv' = [listening |-> r.listening, token |-> r.token, connected |-> FALSE]
        /\ credRet' = CredReturned("Serve", r.err, r.token, files)
        /\ UNCHANGED <<files, flow, sessVars, polVars, sndVars>>

\* The listener accepts a connection and the backend makes its Session.
Accept ==
    /\ srv.listening
    /\ ~srv.connected
    /\ srv' = [srv EXCEPT !.connected = TRUE]
    /\ credRet' = CredReturned("Accept", NoError, NilToken, files)
    /\ UNCHANGED <<files, flow, sessVars, polVars, sndVars>>

\* Data on a session of the server: Send with the client the server was started
\* with; the client keeps the token it has obtained.
Dispatch(refreshOK, overQuota) ==
    LET r == DispatchResult(srv.token, refreshOK, overQuota)
    IN  /\ srv.connected
        /\ srv' = [srv EXCEPT !.token = r.tok]
        /\ credRet' = [CredReturned("Dispatch", NoError, r.tok, files)
                           EXCEPT !.smtp = DataResult(r), !.stored = srv.token,
                                  !.refreshOK = refreshOK, !.overQuota = overQuota]
        /\ UNCHANGED <<files, flow, sessVars, polVars, sndVars>>

\* The command auth revoke: it prints a line and returns; no file is touched.
revokeCmd ==
    /\ credRet' = CredReturned("auth revoke", NoError, NilToken, files)
    /\ UNCHANGED <<files, srv, flow, sessVars, polVars, sndVars>>

\* The time Run waits between s.Close() and its return: none.
ShutdownWait == 0

\* The longest time a Send in flight still needs, in the units of ShutdownWait.
MaxRemaining == 2

\* The process is stopped by a signal: Run calls s.Close(), which closes the
\* listener and every connection at once, and returns; the process exits.
\* inflight: a Data call of the connection is inside Send when the signal
\* arrives, and needs remaining more units of time; it is cut off when the
\* process exits before that.
Shutdown(inflight, remaining) ==
    /\ srv.listening
    /\ inflight => srv.connected
    /\ ~inflight => remaining = 0
    /\ srv' = NoServer
    /\ credRet' = [CredReturned("Shutdown", NoError, NilToken, files)
                       EXCEPT !.inflight = inflight, !.remaining = remaining,
                              !.cut = (inflight /\ remaining > ShutdownWait)]
    /\ UNCHANGED <<files, flow, sessVars, polVars, sndVars>>

Init == SessInit /\ PolIdle /\ SndIdle /\ CredIdle

Next ==
    \/ \E a \in RemoteAddrs : newSession(a) /\ UNCHANGED <<polVars, sndVars, credVars>>
    \/ \E u \in UserNames, p \in Passwords :
           Auth(PlainMech, "", u, p) /\ UNCHANGED <<polVars, sndVars, credVars>>
    \/ \E m \in Mechs \ {PlainMech} : Auth(m, "", "", "") /\ UNCHANGED <<polVars, sndVars, credVars>>
    \/ \E f \in Senders : Mail(f) /\ UNCHANGED <<polVars, sndVars, credVars>>
    \/ \E t \in Recipients : Rcpt(t) /\ UNCHANGED <<polVars, sndVars, credVars>>
    \/ \E st \in Streams, res \in SendResults : Data(st, res) /\ UNCHANGED <<polVars, sndVars, credVars>>
    \/ Reset /\ UNCHANGED <<polVars, sndVars, credVars>>
    \/ Logout /\ UNCHANGED <<polVars, sndVars, credVars>>

Spec == Init /\ [][Next]_vars

PolicyInit == PolInit /\ SessIdle /\ SndIdle /\ CredIdle

PolicyNext == Evaluate

SpecPolicy == PolicyInit /\ [][PolicyNext]_vars

SendInit == SndInit /\ SessIdle /\ PolIdle /\ CredIdle

SendNext ==
    \E order \in HeaderOrders(sndIn.recipients, sndIn.rawEmail), apiErr \in BOOLEAN :
        Send(order, apiErr)

SpecSend == SendInit /\ [][SendNext]_vars

CredSpecInit == CredInit /\ SessIdle /\ PolIdle /\ SndIdle

ServeInit ==
    /\ files \in InitialFiles
                 \cup { [NoFiles EXCEPT ![GoogleTokenPath] = File(Encode(t))] : t \in StoredTokens }
    /\ srv = NoServer
    /\ credRet = NoCredCall
    /\ flow = NoFlow
    /\ SessIdle /\ PolIdle /\ SndIdle

CredNext ==
    \/ \E openFails \in BOOLEAN : LoadToken(openFails)
    \/ \E token \in Tokens, fail \in SaveFailures : saveToken(token, fail)
    \/ \E fail \in RevokeFailures : RevokeToken(fail)
    \/ \E credsOK, openFails, labelsOK \in BOOLEAN, browser \in BrowserOutcomes,
          web \in {NilToken, Token("a1", "r1", Future)}, saveFail \in {"none", "open"} :
           Login(credsOK, openFails, browser, web, saveFail, labelsOK)

SpecCred == CredSpecInit /\ [][CredNext]_vars

ServeNext ==
    \/ \E defaultPassword, credsOK, openFails, bindOK \in BOOLEAN :
           Serve(defaultPassword, credsOK, openFails, bindOK)
    \/ Accept
    \/ \E refreshOK, overQuota \in BOOLEAN : Dispatch(refreshOK, overQuota)
    \/ \E inflight \in BOOLEAN, remaining \in 0..MaxRemaining : Shutdown(inflight, remaining)
    \/ revokeCmd

SpecServe == ServeInit /\ [][ServeNext]_vars

(***************************************************************************)
(* The session with the Gmail client as its dispatcher: Data hands the     *)
(* recipient list and the buffer to Client.Send.                           *)
(***************************************************************************)

\* The address a recipient name of the session stands for.
RcptText(to) == IF to = "r1" THEN <<"r", "1", "@", "x">> ELSE <<"r", "2", "@", "y">>

\* The messages a client writes to the session.
RelayEmails ==
    { RawEmail(<<<<"S", "u", "b", "j", "e", "c", "t", ":", " ", "h", "i">>,
                 <<"t", "o", ":", "b", "@", "y">>>>, <<"h", "i">>),
      RawEmail(<<<<"b", "a", "d">>>>, <<>>) }

\* The answers of the API to a submission.
RelayResults ==
    { [ok |-> TRUE, id |-> "msg-1", err |-> <<>>],
      [ok |-> FALSE, id |-> "", err |-> <<"4", "2", "9", " ">> \o quota \o <<"s">>] }

parseFailed ==
    <<"f", "a", "i", "l", "e", "d", " ", "t", "o", " ", "p", "a", "r", "s", "e", " ",
      "r", "a", "w", " ", "e", "m", "a", "i", "l">>

\* No step of this specification reads the password.
RelayInit == SessInit /\ cfg.SMTPPassword = "s3cret" /\ PolIdle /\ SndIdle /\ CredIdle

\* s.to and s.data.Bytes() as Data hands them to Send, raw being what the client
\* writes: the buffer of a session holds bytes only after a Data, and then it
\* is what that Data handed to Send.
RelayRecipients == [i \in 1..Len(sess.to) |-> RcptText(sess.to[i])]
RelayBuffer(raw) == (IF sess.data = 0 THEN <<>> ELSE sndIn.rawEmail) \o raw

\* Data whose dispatcher is Client.Send: raw is what the client writes,
\* recipients and buffer are what Data hands to Send, apiRes is the answer of
\* the API to a submission.
Relay(raw, recipients, buffer, order, apiRes) ==
    \E out \in {SendOutcome(recipients, buffer, order, ~apiRes.ok)} :
        /\ Data([len |-> Len(raw), fails |-> FALSE],
                IF ~out.submitted THEN [ok |-> FALSE, id |-> "", err |-> parseFailed]
                ELSE apiRes)
        /\ sndIn' = [recipients |-> recipients, rawEmail |-> buffer]
        /\ sndOut' = out
        /\ UNCHANGED <<polVars, credVars>>

RelayNext ==
    \/ \E a \in RemoteAddrs : newSession(a) /\ UNCHANGED <<polVars, sndVars, credVars>>
    \/ Mail("f1") /\ UNCHANGED <<polVars, sndVars, credVars>>
    \/ \E t \in Recipients : Rcpt(t) /\ UNCHANGED <<polVars, sndVars, credVars>>
    \/ \E raw \in RelayEmails, apiRes \in RelayResults :
           \E recipients \in {RelayRecipients}, buffer \in {RelayBuffer(raw)} :
               \E order \in HeaderOrders(recipients, buffer) :
                   Relay(raw, recipients, buffer, order, apiRes)

SpecRelay == RelayInit /\ [][RelayNext]_vars

(***************************************************************************)
(* What a rule and an address mean, stated on the bits of the address:     *)
(* the specification side of the access policy.                            *)
(***************************************************************************)
BitsOfByte(x) == [i \in 1..8 |-> (x \div (2 ^ (8 - i))) % 2]

RECURSIVE BitsOf(_)
BitsOf(bytes) == IF bytes = <<>> THEN <<>> ELSE BitsOfByte(Head(bytes)) \o BitsOf(Tail(bytes))

IsCIDRText(t) == ParseCIDR(t) # NoNet
IsIPText(t) == ParseIP(t) # <<>>

\* The address as the family of the rule writes it: 4 bytes for an IPv4 rule.
InFamily(t, addr) == IF t.form = "v4" THEN To4(addr) ELSE IF To4(addr) = <<>> THEN addr ELSE <<>>

\* A CIDR block covers an address of its family whose first prefix bits are the
\* block's.
Covers(t, addr) ==
    /\ InFamily(t, addr) # <<>>
    /\ \A i \in 1..t.prefix : BitsOf(t.b)[i] = BitsOf(InFamily(t, addr))[i]

PolicyAllows(addr, rules) ==
    \/ Len(rules) = 0
    \/ \E i \in 1..Len(rules) : IsCIDRText(rules[i]) /\ Covers(rules[i], addr)
    \/ \E i \in 1..Len(rules) :
           ~IsCIDRText(rules[i]) /\ IsIPText(rules[i]) /\ ParseIP(rules[i]) = addr

Malformed(t) == ~IsCIDRText(t) /\ ~IsIPText(t)

(***************************************************************************)
(* Claims.                                                                 *)
(***************************************************************************)

\* C1 (as claimed): the session never calls Send unless an authentication attempt
\* on it has succeeded.
C1_NoDispatchBeforeAuth == lastRet.send.n > 0 => authed

\* C2 (as claimed): with a positive limit of C bytes, a Data call on an empty buffer
\* with a stream of L bytes that is read in full calls Send iff L <= C*3/4, and
\* otherwise returns the size error without calling Send.
C2_DispatchIffThreeQuarters ==
    (/\ lastRet.op = "Data"
     /\ cfg.MessageSizeLimitMB > 0
     /\ lastRet.arg.before = 0
     /\ ~lastRet.arg.stream.fails)
    => LET L == lastRet.arg.stream.len
           C == cfg.MessageSizeLimitMB * 1024 * 1024
       IN  /\ (lastRet.send.n = 1) <=> (L <= (C * 3) \div 4)
           /\ L > (C * 3) \div 4 => lastRet.err.code = 552 /\ lastRet.send.n = 0

\* C3: a Data call that finds the buffer over the limit returns an SMTP error with
\* code 552 and has not called Send; no Data call that returns 552 has called Send.
C3_SizeRejectionIs552 ==
    lastRet.op = "Data" =>
        /\ (/\ cfg.MessageSizeLimitMB > 0
            /\ lastRet.err # ReadError
            /\ sess.data > cfg.MessageSizeLimitMB * 1024 * 1024)
           => /\ lastRet.err.kind = "smtp"
              /\ lastRet.err.code = 552
              /\ lastRet.send.n = 0
        /\ lastRet.err.code = 552 => lastRet.send.n = 0

C3_Witness ==
    /\ lastRet.op = "Data"
    /\ lastRet.err.code = 552
    /\ lastRet.arg.stream.len > cfg.MessageSizeLimitMB * 1024 * 1024

\* C5: IsAllowed(A, R) is TRUE iff R is empty, or an entry of R is a CIDR block that
\* covers A, or an entry of R that is no CIDR block is the address A.
C5_IsAllowedMeaning ==
    polOut.done => polOut.result = PolicyAllows(polIn.clientIP, polIn.allowedSubnets)

C5_Witness ==
    /\ polOut.done
    /\ polOut.result
    /\ Len(polIn.allowedSubnets) >= 2
    /\ Malformed(polIn.allowedSubnets[1])
    /\ \E i \in 2..Len(polIn.allowedSubnets) :
           ~IsCIDRText(polIn.allowedSubnets[i]) /\ ParseIP(polIn.allowedSubnets[i]) = polIn.clientIP

\* C6: newSession answers an address the rules do not allow with the SMTP error
\* 554 "access denied" and no Session; it answers an address it cannot parse with
\* an error and no Session; the connection has a Session only for an address that
\* parses and that the rules allow.
C6_DeniedMeansNoSession ==
    /\ lastRet.op = "newSession" =>
          LET a == lastRet.arg
              parses == a.port /\ IsIPText(a.host)
          IN  /\ (parses /\ ~PolicyAllows(ParseIP(a.host), cfg.AllowedSubnets))
                  => /\ lastRet.err = SMTPError(554, "access denied")
                     /\ ~lastRet.session
                     /\ ~sess.open
              /\ ~parses => lastRet.err # NoErr /\ ~lastRet.session /\ ~sess.open
              /\ lastRet.session
                  => parses /\ PolicyAllows(ParseIP(a.host), cfg.AllowedSubnets) /\ sess.open
    /\ sess.open => PolicyAllows(sess.clientIP, cfg.AllowedSubnets)

C6_Witness ==
    /\ lastRet.op = "newSession"
    /\ lastRet.arg.host = Txt4(203, 0, 113, 5)
    /\ lastRet.arg.port
    /\ lastRet.err.code = 554
    /\ ~sess.open

\* C7 (as claimed): when Send fails, an error text containing "quota" gives 452, an
\* error text containing "authentication" gives 535, any other text gives 451.
C7_ClassifiedAsClaimed ==
    (lastRet.op = "Data" /\ lastRet.send.n = 1 /\ ~lastRet.send.res.ok) =>
        LET t == lastRet.send.res.err
        IN  /\ StrContains(t, quota) => lastRet.err = SMTPError(452, lastRet.err.text)
            /\ StrContains(t, authentication) => lastRet.err = SMTPError(535, lastRet.err.text)
            /\ (~StrContains(t, quota) /\ ~StrContains(t, authentication))
                   => lastRet.err = SMTPError(451, lastRet.err.text)

\* C7 (amended): when Send fails, an error text containing "quota" gives 452; a
\* text containing "authentication" and not "quota" gives 535; any other text
\* gives 451.
C7_QuotaTakesPrecedence ==
    (lastRet.op = "Data" /\ lastRet.send.n = 1 /\ ~lastRet.send.res.ok) =>
        LET t == lastRet.send.res.err
        IN  /\ StrContains(t, quota) => lastRet.err = SMTPError(452, lastRet.err.text)
            /\ (StrContains(t, authentication) /\ ~StrContains(t, quota))
                   => lastRet.err = SMTPError(535, lastRet.err.text)
            /\ (~StrContains(t, quota) /\ ~StrContains(t, authentication))
                   => lastRet.err = SMTPError(451, lastRet.err.text)

C7_Witness ==
    /\ lastRet.op = "Data"
    /\ lastRet.send.n = 1
    /\ ~lastRet.send.res.ok
    /\ StrContains(lastRet.send.res.err, quota)
    /\ StrContains(lastRet.send.res.err, authentication)
    /\ lastRet.err.code = 452

C9_ExactlyOneSendWithinLimit ==
    lastRet.op = "Data" =>
        /\ lastRet.send.n <= 1
        /\ (/\ ~lastRet.arg.stream.fails
            /\ \/ cfg.MessageSizeLimitMB <= 0
               \/ lastRet.arg.stream.len <= cfg.MessageSizeLimitMB * 1024 * 1024)
           => lastRet.send.n = 1

Received(raw) ==
    LET d == DecodeString(raw)
    IN  IF d.ok THEN ReadMessage(String(d.bytes)) ELSE NoMessage

\* C4: for a message that carries a To header and a non-empty recipient list, the
\* payload submitted decodes to a message with exactly one To header, whose value
\* is the recipients joined by ", " in their order.
C4_ToIsTheRecipients ==
    (/\ sndOut.submitted
     /\ Len(sndIn.recipients) > 0
     /\ HeaderHas(ReadMessage(sndIn.rawEmail).Header, ToKey))
    => LET m == Received(sndOut.Raw)
       IN  /\ m.ok
           /\ HeaderGet(m.Header, ToKey) = <<Join(sndIn.recipients, commaSpace)>>

C4_Witness ==
    /\ sndOut.submitted
    /\ Len(sndIn.recipients) = 2
    /\ sndIn.recipients[1] # sndIn.recipients[2]
    /\ Len(HeaderGet(ReadMessage(sndIn.rawEmail).Header, ToKey)) = 2
    /\ Len(HeaderGet(Received(sndOut.Raw).Header, ToKey)) = 1

\* C11 (as claimed): when the configured SMTPPassword is the default "smoggmos",
\* every authentication attempt fails, the configured pair included.
C11_DefaultPasswordRefused ==
    (lastRet.op = "Auth" /\ cfg.SMTPPassword = DefaultSMTPPassword) => lastRet.err # NoErr

\* A PLAIN attempt that failed, as the last callback records it.
FailedPlain(ret) == ret.op = "Auth" /\ ret.arg.mech = "PLAIN" /\ ret.err # NoErr

\* C12: two failing PLAIN attempts made one after the other against the same
\* configuration return the same error, whichever fields were wrong in each.
C12_FailuresAlike ==
    [][(FailedPlain(lastRet) /\ FailedPlain(lastRet')) => lastRet'.err = lastRet.err]_vars

C12_Witness ==
    /\ FailedPlain(lastRet)
    /\ lastRet.retry
    /\ lastRet.arg.username = cfg.SMTPUser
    /\ lastRet.arg.password # cfg.SMTPPassword

\* The token file holds a token: it exists and its text decodes.
TokenOnDisk == files[GoogleTokenPath].exists /\ Decode(files[GoogleTokenPath].data).ok

\* C13: a start of the server that finds the token file missing or undecodable
\* ends with an error and no listener; the listener runs, a Session is made and a
\* dispatch is attempted only when a token was loaded from the file.
C13_NoListenerWithoutToken ==
    /\ (credRet.op = "Serve" /\ ~TokenOnDisk)
           => credRet.err # NoError /\ ~srv.listening /\ ~srv.connected
    /\ (srv.listening \/ srv.connected \/ credRet.op \in {"Accept", "Dispatch"})
           => TokenOnDisk /\ ~srv.token.nil

C13_Witness ==
    /\ credRet.op = "Serve"
    /\ files[GoogleTokenPath].exists
    /\ ~Decode(files[GoogleTokenPath].data).ok
    /\ credRet.err = "failed to load google api token"
    /\ ~srv.listening

C15_OneBackup ==
    (credRet.op = "saveToken" /\ credRet.err = NoError /\ ~credRet.prevSaved.nil)
    => /\ files[GoogleTokenPath] = File(Encode(credRet.tok))
       /\ files[backupPath(GoogleTokenPath)] = File(Encode(credRet.prevSaved))
       /\ \A p \in Paths \ {GoogleTokenPath, backupPath(GoogleTokenPath)} : ~files[p].exists

C15_Witness ==
    /\ credRet.op = "saveToken"
    /\ credRet.err = NoError
    /\ ~credRet.prevSaved.nil
    /\ credRet.prevSaved # credRet.tok
    /\ files[backupPath(GoogleTokenPath)] = File(Encode(credRet.prevSaved))

\* A text that is no JSON value: it is empty, starts as no value does, or is an
\* object that is not closed.
NotJSON(text) ==
    \/ Len(text) = 0
    \/ text[1] \notin {"{", "null"}
    \/ text[1] = "{" /\ \A i \in 1..Len(text) : text[i] # "}"

\* C16: LoadToken answers a missing file with no token and no error, and a file
\* whose text is no JSON value with an error; right after a saveToken that
\* succeeded it returns the token that was saved, unless the file cannot be opened.
C16_LoadMeaning ==
    credRet.op = "LoadToken" =>
        /\ ~files[GoogleTokenPath].exists => credRet.tok.nil /\ credRet.err = NoError
        /\ (files[GoogleTokenPath].exists /\ NotJSON(files[GoogleTokenPath].data))
               => credRet.tok.nil /\ credRet.err # NoError
        /\ ~credRet.prevSaved.nil
               => \/ credRet.tok = credRet.prevSaved /\ credRet.err = NoError
                  \/ credRet.err = "failed to get token from file: failed to open token file"

C16_Witness ==
    /\ credRet.op = "LoadToken"
    /\ credRet.prevSaved = Token("a2", "", Past)
    /\ credRet.tok = credRet.prevSaved
    /\ credRet.err = NoError

\* C17: a RevokeToken that succeeds on an existing file removes it after every
\* byte of it was overwritten with a zero, the file is gone when it returns, and a
\* LoadToken made right after a RevokeToken that succeeded finds no token.
C17_ErasedThenRemoved ==
    /\ (credRet.op = "RevokeToken" /\ credRet.err = NoError /\ credRet.existed)
           => /\ credRet.removed.exists
              /\ Len(credRet.removed.data) = credRet.size
              /\ \A i \in 1..credRet.size : credRet.removed.data[i] = ZeroChunk
              /\ ~files[GoogleTokenPath].exists
    /\ (credRet.op = "RevokeToken" /\ credRet.err = NoError) => ~files[GoogleTokenPath].exists
    /\ (credRet.op = "LoadToken" /\ credRet.prevRevoked)
           => credRet.tok.nil /\ credRet.err = NoError

C17_Witness ==
    /\ credRet.op = "RevokeToken"
    /\ credRet.err = NoError
    /\ credRet.existed
    /\ credRet.size > 0
    /\ credRet.removed = File(Zeroed(Encode(Token("a1", "r1", Future))))
    /\ ~files[GoogleTokenPath].exists

\* C18: RevokeToken on a token file that does not exist returns no error and
\* leaves every file as it was; so does a RevokeToken made right after one that
\* succeeded.
C18_RevokeMissingIsNoOp ==
    /\ (credRet.op = "RevokeToken" /\ ~credRet.existed)
           => credRet.err = NoError /\ credRet.unchanged /\ ~credRet.removed.exists
    /\ (credRet.op = "RevokeToken" /\ credRet.prevRevoked)
           => credRet.err = NoError /\ credRet.unchanged

C18_Witness ==
    /\ credRet.op = "RevokeToken"
    /\ credRet.prevRevoked
    /\ ~credRet.existed
    /\ credRet.err = NoError
    /\ credRet.unchanged
    /\ files[backupPath(GoogleTokenPath)].exists

\* C19: a Login whose exchanges both fail returns an error and leaves every
\* file, the token file and its backup, as it was; saveToken has run within a
\* Login only when an exchange has returned a token.
C19_FailedExchangeKeepsFiles ==
    /\ (credRet.op = "Login" /\ credRet.exchange = "failed")
           => /\ credRet.unchanged
              /\ ~credRet.saved
              /\ credRet.err # NoError
    /\ (credRet.op = "Login" /\ credRet.saved) => credRet.exchange = "ok"
    /\ (credRet.op = "Login" /\ ~credRet.unchanged) => credRet.exchange = "ok"

C19_Witness ==
    /\ credRet.op = "Login"
    /\ credRet.exchange = "failed"
    /\ credRet.existed
    /\ credRet.unchanged
    /\ files[GoogleTokenPath].exists
    /\ NotJSON(files[GoogleTokenPath].data)

\* The rules without the entries that are neither a CIDR block nor an address.
WellFormed(t) == ~Malformed(t)
WithoutMalformed(rules) == SelectSeq(rules, WellFormed)

\* C20: for rules with at least one well-formed entry, IsAllowed answers as it
\* answers for the same rules with the malformed entries taken out, wherever the
\* malformed entries stand.
C20_MalformedEntriesAreInert ==
    (polOut.done /\ Len(WithoutMalformed(polIn.allowedSubnets)) > 0)
        => polOut.result = IsAllowed(polIn.clientIP, WithoutMalformed(polIn.allowedSubnets))

C20_Witness ==
    /\ polOut.done
    /\ polOut.result
    /\ Len(polIn.allowedSubnets) = 2
    /\ Malformed(polIn.allowedSubnets[1])
    /\ IsCIDRText(polIn.allowedSubnets[2])
    /\ WithoutMalformed(polIn.allowedSubnets) = <<polIn.allowedSubnets[2]>>
    /\ Contains(ParseCIDR(polIn.allowedSubnets[2]), polIn.clientIP)

\* C21: the payload submitted for a message that parses decodes to a message
\* that parses, whose body (the bytes after the empty line that ends the header
\* block) is the body of the message given.
C21_BodyUnchanged ==
    sndOut.submitted
        => LET m == Received(sndOut.Raw)
               given == ReadMessage(sndIn.rawEmail)
           IN  /\ m.ok
               /\ m.Body = given.Body

C21_Witness ==
    /\ sndOut.submitted
    /\ Len(sndIn.recipients) > 0
    /\ HeaderHas(ReadMessage(sndIn.rawEmail).Header, ToKey)
    /\ ReadMessage(sndIn.rawEmail).Body = <<CR, LF, "x">>
    /\ Received(sndOut.Raw).Body = <<CR, LF, "x">>
    /\ Received(sndOut.Raw).Header # ReadMessage(sndIn.rawEmail).Header

\* C22: a Data call on a session without recipients calls Send once, with an
\* empty recipient list, and answers what Send answers; the payload Send submits
\* decodes to a message without a To header.
C22_NoRecipientsNoTo ==
    (lastRet.op = "Data" /\ Len(sess.to) = 0)
        => /\ lastRet.send.n = 1
           /\ lastRet.send.to = <<>>
           /\ sndIn.recipients = <<>>
           /\ lastRet.err = DataResult(lastRet.send.res)
           /\ sndOut.err = "" => lastRet.err = NoErr
           /\ sndOut.submitted
                  => /\ Received(sndOut.Raw).ok
                     /\ ~HeaderHas(Received(sndOut.Raw).Header, ToKey)

C22_Witness ==
    /\ lastRet.op = "Data"
    /\ Len(sess.to) = 0
    /\ lastRet.err = NoErr
    /\ sndOut.submitted
    /\ HeaderHas(ReadMessage(sndIn.rawEmail).Header, ToKey)
    /\ HeaderHas(ReadMessage(sndIn.rawEmail).Header, <<"S", "u", "b", "j", "e", "c", "t">>)
    /\ ~HeaderHas(Received(sndOut.Raw).Header, ToKey)
    /\ HeaderHas(Received(sndOut.Raw).Header, <<"S", "u", "b", "j", "e", "c", "t">>)

\* C23 (as claimed): with a positive limit, a Data call that finds in the buffer
\* the bytes of a Data call rejected as oversized, and whose own stream is within
\* the limit and is read in full, calls Send and answers what Send answers.
C23_DataAfterRejectionIsDispatched ==
    (/\ lastRet.op = "Data"
     /\ cfg.MessageSizeLimitMB > 0
     /\ lastRet.arg.before > limitBytes(cfg)
     /\ lastRet.arg.stream.len <= limitBytes(cfg)
     /\ ~lastRet.arg.stream.fails)
    => /\ lastRet.send.n = 1
       /\ lastRet.err = DataResult(lastRet.send.res)

\* C24 (as claimed): a shutdown closes the listener, and a Data call that is
\* inside Send when the signal arrives and needs no more than one unit of time,
\* the shortest grace period there is, is not cut off.
C24_InFlightDispatchGetsGrace ==
    credRet.op = "Shutdown"
        => /\ ~srv.listening
           /\ (credRet.inflight /\ credRet.remaining <= 1) => ~credRet.cut

\* C25 (as claimed): when the command auth revoke has completed, the token file
\* does not exist.
C25_RevokeCommandDeletesToken ==
    credRet.op = "auth revoke" => ~files[GoogleTokenPath].exists

\* C26: right after a Mail call the sender is the one given, and the recipient
\* list and the buffer are empty, whatever sender, recipients and bytes the call
\* found.
C26_MailIsHardReset ==
    lastRet.op = "Mail"
        => /\ lastRet.err = NoErr
           /\ sess.from = lastRet.arg.from
           /\ sess.to = <<>>
           /\ sess.data = 0

C26_Witness ==
    /\ lastRet.op = "Mail"
    /\ lastRet.arg.before.from # ""
    /\ lastRet.arg.before.from # lastRet.arg.from
    /\ Len(lastRet.arg.before.to) = 2
    /\ lastRet.arg.before.data > 0
    /\ sess.from = lastRet.arg.from
    /\ sess.to = <<>>
    /\ sess.data = 0

\* C27: the recipient list a Data call hands to Send is the log of the addresses
\* given to Rcpt since the last Mail or Reset, in the order of the calls and
\* with an address given twice standing twice.
C27_RecipientsAsGiven ==
    (lastRet.op = "Data" /\ lastRet.send.n = 1) => lastRet.send.to = lastRet.given

C27_Witness ==
    /\ lastRet.op = "Data"
    /\ lastRet.send.n = 1
    /\ lastRet.given = <<"r2", "r2">>
    /\ lastRet.send.to = <<"r2", "r2">>

\* C28: right after a Reset call, whatever transaction the call found, the
\* sender, the recipient list and the buffer are empty; and a Mail call that
\* follows a Reset is accepted and finds the empty transaction.
C28_ResetClearsTransaction ==
    /\ lastRet.op = "Reset"
           => /\ lastRet.err = NoErr
              /\ Transaction(sess) = [from |-> "", to |-> <<>>, data |-> 0]
    /\ (lastRet.op = "Mail" /\ lastRet.arg.afterReset)
           => /\ lastRet.err = NoErr
              /\ lastRet.arg.before = [from |-> "", to |-> <<>>, data |-> 0]
              /\ sess.from = lastRet.arg.from

C28_Witness ==
    /\ lastRet.op = "Reset"
    /\ lastRet.arg.before.from # ""
    /\ Len(lastRet.arg.before.to) > 0
    /\ lastRet.arg.before.data > limitBytes(cfg)
    /\ cfg.MessageSizeLimitMB > 0
    /\ Transaction(sess) = [from |-> "", to |-> <<>>, data |-> 0]

\* C29 (as claimed): right after a Logout call the sender, the recipient list
\* and the buffer are empty.
C29_LogoutClearsTransaction ==
    lastRet.op = "Logout" => Transaction(sess) = [from |-> "", to |-> <<>>, data |-> 0]

\* C30 (as claimed): on a session that has accepted no Mail since it was made or
\* since the last Reset (its sender is empty: every sender of Senders is a
\* non-empty text), a Rcpt call is refused, and a Data call is refused and does
\* not call Send.
C30_MailBeforeRcptAndData ==
    sess.from = ""
        => /\ lastRet.op = "Rcpt" => lastRet.err # NoErr
           /\ lastRet.op = "Data" => lastRet.err # NoErr /\ lastRet.send.n = 0

\* C31 (as claimed): with a positive limit the buffer of a session never holds
\* more than the limit and one byte.
C31_BufferWithinCeiling ==
    cfg.MessageSizeLimitMB > 0 => sess.data <= limitBytes(cfg) + 1

\* C32 (as claimed): a Login whose browser flow ends in a failed exchange returns
\* an error without calling getTokenFromWeb and without saving; getTokenFromWeb
\* is called only when the browser could not be opened.
C32_ExchangeFailureAborts ==
    credRet.op = "Login"
        => /\ credRet.browserErr = exchangeFailed
                  => credRet.err # NoError /\ ~credRet.manual /\ ~credRet.saved
           /\ credRet.manual => credRet.browserErr = "could not open browser"


(***************************************************************************)
(* The interactive acquisition of a token by getClientForLogin:            *)
(* getTokenFromBrowser with its callback server, its handlers and its two  *)
(* unbuffered channels, then getTokenFromWeb when it has returned an error.*)
(* A goroutine that sends on a channel is blocked until the calling        *)
(* goroutine receives in its select; a select that finds several channels  *)
(* ready takes any one of them.                                            *)
(***************************************************************************)

\* The requests the callback server accepts in one run, at most.
MaxRequests == 2

\* The code parameter of a request: none, or a code.
Codes == {"", "c1", "c2"}

notFound == "authorization code not found"
timedOut == "timed out waiting for authorization code"
cannotOpen == "could not open browser"
cannotListen == "failed to start local server"
cannotRead == "unable to read authorization code"

\* Where the calling goroutine is once getTokenFromBrowser has returned.
ReturnedPcs == {"returned", "manual", "exchangeWeb", "done"}

\* What the handler of request n sends, and on which channel.
handlerMessage(n, code) ==
    IF code = "" THEN [ch |-> "err", n |-> n, code |-> "", err |-> notFound]
    ELSE [ch |-> "code", n |-> n, code |-> code, err |-> NoError]

\* What the goroutine of ListenAndServe sends when the server does not start.
serverMessage == [ch |-> "err", n |-> 0, code |-> "", err |-> cannotListen]

\* The senders a select can take: on each channel the one blocked longest.
Ready(senders) ==
    { i \in 1..Len(senders) : \A j \in 1..(i - 1) : senders[j].ch # senders[i].ch }

\* The select takes the message of sender i, whose goroutine goes on.
Taken(f, i) ==
    [f EXCEPT !.pc = "closing", !.branch = f.senders[i].ch, !.got = f.senders[i],
              !.senders = SubSeq(@, 1, i - 1) \o SubSeq(@, i + 1, Len(@))]

\* A goroutine sends m: the select takes it when the calling goroutine waits
\* there, otherwise the goroutine is blocked.
Deliver(f, m) ==
    IF f.pc = "select" THEN [f EXCEPT !.pc = "closing", !.branch = m.ch, !.got = m]
    ELSE [f EXCEPT !.senders = Append(@, m)]

\* server.Shutdown: ListenAndServe returns ErrServerClosed from now on, and the
\* listener is closed.  It waits no longer than five seconds for the handlers.
ShutdownServerKeepingListener(f) == [f EXCEPT !.inShutdown = TRUE]

ShutdownServer(f) ==
    [f EXCEPT !.inShutdown = TRUE,
              !.server = IF @ = "serving" THEN "closed" ELSE @]

\* The error getTokenFromBrowser returns in the branches that exchange nothing.
BranchErrorWaiting(branch, got) ==
    IF branch = "open" THEN cannotOpen ELSE timedOut

BranchError(branch, got) ==
    IF branch = "open" THEN cannotOpen
    ELSE IF branch = "err" THEN got.err
    ELSE timedOut

BrowserInit == CredIdle /\ SessIdle /\ PolIdle /\ SndIdle

\* getTokenFromBrowser is called: the channels are made, the handler is
\* registered and the goroutine of ListenAndServe is started.
getTokenFromBrowser ==
    /\ flow.pc = "idle"
    /\ flow' = [flow EXCEPT !.pc = "open", !.server = "new"]
    /\ UNCHANGED <<files, srv, credRet, sessVars, polVars, sndVars>>

\* The goroutine of ListenAndServe runs.
ListenAndServe(bindOK) ==
    /\ flow.server = "new"
    /\ flow' = IF flow.inShutdown THEN [flow EXCEPT !.server = "closed"]
               ELSE IF bindOK THEN [flow EXCEPT !.server = "serving"]
               ELSE Deliver([flow EXCEPT !.server = "failed"], serverMessage)
    /\ UNCHANGED <<files, srv, credRet, sessVars, polVars, sndVars>>

\* A request reaches the listener and its handler runs up to its send; the
\* requests are numbered in the order in which their handlers get there.
Request(code) ==
    /\ flow.server = "serving"
    /\ flow.requests < MaxRequests
    /\ flow' = Deliver([flow EXCEPT !.requests = @ + 1,
                                    !.late = (flow.pc \in ReturnedPcs)],
                       handlerMessage(flow.requests + 1, code))
    /\ UNCHANGED <<files, srv, credRet, sessVars, polVars, sndVars>>

\* browser.OpenURL returns, and on success the select is entered: it takes a
\* sender that is blocked already, or waits.
OpenURL(ok) ==
    /\ flow.pc = "open"
    /\ IF ~ok THEN flow' = [flow EXCEPT !.pc = "closing", !.branch = "open"]
       ELSE IF flow.senders = <<>> THEN flow' = [flow EXCEPT !.pc = "select", !.waited = TRUE]
       ELSE \E i \in Ready(flow.senders) : flow' = Taken(flow, i)
    /\ UNCHANGED <<files, srv, credRet, sessVars, polVars, sndVars>>

\* time.After(5 * time.Minute) fires in the select.
Timeout ==
    /\ flow.pc = "select"
    /\ flow' = [flow EXCEPT !.pc = "closing", !.branch = "timeout"]
    /\ UNCHANGED <<files, srv, credRet, sessVars, polVars, sndVars>>

\* The branch taken shuts the server down and returns, or goes on to exchange
\* the code.
ShutdownAndReturn ==
    /\ flow.pc = "closing"
    /\ flow' = IF flow.branch = "code" THEN [ShutdownServer(flow) EXCEPT !.pc = "exchange"]
               ELSE [ShutdownServer(flow) EXCEPT !.pc = "returned",
                                                 !.err = BranchError(flow.branch, flow.got)]
    /\ UNCHANGED <<files, srv, credRet, sessVars, polVars, sndVars>>

\* config.Exchange answers, and getTokenFromBrowser returns.
Exchange(ok) ==
    /\ flow.pc = "exchange"
    /\ flow' = [flow EXCEPT !.pc = "returned", !.exchanged = flow.got.code,
                            !.tok = IF ok THEN Token("a1", "r1", Future) ELSE NilToken,
                            !.err = IF ok THEN NoError ELSE exchangeFailed]
    /\ UNCHANGED <<files, srv, credRet, sessVars, polVars, sndVars>>

\* getClientForLogin calls getTokenFromWeb, which prompts and reads a line.
getTokenFromWeb ==
    /\ flow.pc = "returned"
    /\ flow.err # NoError
    /\ flow' = [flow EXCEPT !.pc = "manual"]
    /\ UNCHANGED <<files, srv, credRet, sessVars, polVars, sndVars>>

\* The operator enters a line, or the standard input ends.
ReadString(eof) ==
    /\ flow.pc = "manual"
    /\ flow' = IF eof THEN [flow EXCEPT !.pc = "done", !.err = cannotRead]
               ELSE [flow EXCEPT !.pc = "exchangeWeb"]
    /\ UNCHANGED <<files, srv, credRet, sessVars, polVars, sndVars>>

\* config.Exchange answers in getTokenFromWeb.
ExchangeWeb(ok) ==
    /\ flow.pc = "exchangeWeb"
    /\ flow' = [flow EXCEPT !.pc = "done",
                            !.tok = IF ok THEN Token("a1", "r1", Future) ELSE NilToken,
                            !.err = IF ok THEN NoError ELSE exchangeFailed]
    /\ UNCHANGED <<files, srv, credRet, sessVars, polVars, sndVars>>

\* The steps the program takes by itself; the others wait for a browser or for
\* the operator.
ProgramStep ==
    \/ getTokenFromBrowser
    \/ \E bindOK \in BOOLEAN : ListenAndServe(bindOK)
    \/ \E ok \in BOOLEAN : OpenURL(ok)
    \/ Timeout
    \/ ShutdownAndReturn
    \/ \E ok \in BOOLEAN : Exchange(ok)
    \/ getTokenFromWeb
    \/ \E ok \in BOOLEAN : ExchangeWeb(ok)

BrowserNext ==
    \/ getTokenFromBrowser
    \/ \E bindOK \in BOOLEAN : ListenAndServe(bindOK)
    \/ \E code \in Codes : Request(code)
    \/ \E ok \in BOOLEAN : OpenURL(ok)
    \/ Timeout
    \/ ShutdownAndReturn
    \/ \E ok \in BOOLEAN : Exchange(ok)
    \/ getTokenFromWeb
    \/ \E eof \in BOOLEAN : ReadString(eof)
    \/ \E ok \in BOOLEAN : ExchangeWeb(ok)

SpecBrowser == BrowserInit /\ [][BrowserNext]_vars

\* The program's own steps are taken when they can be: the timer fires, the
\* calls return.  Nothing makes a browser send a request or an operator type.
SpecBrowserLive == BrowserInit /\ [][BrowserNext]_vars /\ WF_vars(ProgramStep)

\* C33: once getTokenFromBrowser has returned, on whichever path, the listener
\* takes no request: the server is not serving, and no request has been
\* accepted since the return.
C33_ListenerClosedOnReturn ==
    flow.pc \in ReturnedPcs
        => /\ flow.server # "serving"
           /\ flow.server = "new" => flow.inShutdown
           /\ ~flow.late

C33_Witness ==
    /\ flow.pc = "returned"
    /\ flow.branch = "timeout"
    /\ flow.server = "closed"
    /\ flow.requests = 0

\* C34 (as claimed): both flows return in bounded time by themselves: the local
\* flow once it waits in its select, and the manual flow once it waits for the
\* operator's line.
C34_BothFlowsReturn ==
    /\ (flow.pc = "select") ~> (flow.pc \in ReturnedPcs)
    /\ (flow.pc = "manual") ~> (flow.pc \in {"exchangeWeb", "done"})

\* The half of C34 that holds: the local flow leaves its select.
LocalFlowReturns == (flow.pc = "select") ~> (flow.pc \in ReturnedPcs)


\* The outcome of getTokenFromBrowser follows the message its select took from
\* a handler: a code is the code exchanged, no code is the error notFound.
OutcomeFollows(got) ==
    flow.pc \in {"returned", "manual"}
        => IF got.code # "" THEN flow.exchanged = got.code
           ELSE flow.exchanged = "" /\ flow.err = notFound

\* C35 (as claimed): the request the outcome is taken from is the first one
\* that reached the listener.
C35_FirstRequestDecides ==
    flow.got.n # 0 => flow.got.n = 1 /\ OutcomeFollows(flow.got)

\* C35: one request decides: the one whose message the select takes.  It is the
\* first request whose handler sends whenever the flow was waiting in its select
\* for it; of requests handled while the browser was being opened the select
\* may take any.  A request without code that is taken fails the
\* flow, whatever has arrived or arrives later, and no other code is exchanged.
C35_OneRequestDecides ==
    /\ flow.exchanged \in {"", flow.got.code}
    /\ flow.got.n # 0
           => /\ flow.waited => flow.got.n = 1
              /\ OutcomeFollows(flow.got)

C35_Witness ==
    /\ flow.pc = "returned"
    /\ flow.waited
    /\ flow.got.n = 1 /\ flow.got.code = ""
    /\ flow.err = notFound
    /\ Len(flow.senders) = 1 /\ flow.senders[1].code = "c1"

\* C40 (as claimed): once getTokenFromBrowser has returned nothing receives
\* from its channels any more, so no goroutine may be blocked on a send then.
C40_NoSenderLeftBlocked ==
    flow.pc \in ReturnedPcs => flow.senders = <<>>


\* The keys of a mail.Header.
HeaderKeys(h) == { h.keys[i] : i \in 1..Len(h.keys) }

\* C36 (as claimed): the payload submitted decodes to a message in which every
\* header other than To has the values it has in the message given: as many
\* occurrences, with the same values in the same order, names being compared in
\* their canonical form and no header other than To being added.
C36_OtherHeadersPreserved ==
    sndOut.submitted
        => LET given == ReadMessage(sndIn.rawEmail).Header
               m == Received(sndOut.Raw)
           IN  /\ m.ok
               /\ \A k \in (HeaderKeys(given) \cup HeaderKeys(m.Header)) \ {ToKey} :
                      HeaderGet(m.Header, k) = HeaderGet(given, k)


\* A file that holds a complete credential: it exists and decodes to a token.
Complete(f) == f.exists /\ Decode(f.data).ok

C38_RevokeKeepsBackup ==
    [][credRet'.op = "RevokeToken"
           => \A p \in Paths \ {GoogleTokenPath} : files'[p] = files[p]]_vars

C38_Witness ==
    /\ credRet.op = "RevokeToken"
    /\ credRet.err = NoError
    /\ credRet.existed
    /\ ~credRet.prevSaved.nil
    /\ ~files[GoogleTokenPath].exists
    /\ Complete(files[backupPath(GoogleTokenPath)])
    /\ Decode(files[backupPath(GoogleTokenPath)].data).tok \in Tokens \ {credRet.prevSaved}

\* C39: rules that are not empty and of which every entry is malformed allow no
\* address, while empty rules allow every address.
C39_AllMalformedDeniesAll ==
    polOut.done
        => /\ Len(polIn.allowedSubnets) = 0 => polOut.result
           /\ (/\ Len(polIn.allowedSubnets) > 0
               /\ \A i \in 1..Len(polIn.allowedSubnets) : Malformed(polIn.allowedSubnets[i]))
                  => ~polOut.result

C39_Witness ==
    /\ polOut.done
    /\ ~polOut.result
    /\ Len(polIn.allowedSubnets) = 2
    /\ \A i \in 1..2 : Malformed(polIn.allowedSubnets[i])
    /\ polIn.allowedSubnets[1] # polIn.allowedSubnets[2]

====
